---- MODULE Spec2Model ----
(***************************************************************************)
(* Model of the fix pipeline of debian-doctor: the Fix descriptor, the     *)
(* validator (Executor.validateFix), the executor state machine            *)
(* (Executor.ExecuteFix with confirmExecution, executeCommand,             *)
(* offerReverse and reverseFix) and the fix catalogue (GetCommonFixes,     *)
(* DiagnoseDiskIssues).  Two further specifications share the variables:   *)
(* SpecCatalog is the interface (SimpleUI.Run, runDiagnosis, applyFix and  *)
(* the --issue path) over the nine diagnosis handlers and the free-text    *)
(* catalogue; SpecChecks is the system check loop over Results.AddResult.  *)
(*                                                                         *)
(* Strings are TLA+ strings; Go's strings.ToLower, strings.TrimSpace,      *)
(* strings.Fields and strings.Contains are computed character by           *)
(* character over the ASCII range.  A subprocess is the environment: its   *)
(* result is drawn from CmdResults.  ExecuteFix blocks on the operator's   *)
(* input stream and on subprocesses, so it is cut into one action per      *)
(* blocking point.                                                         *)
(***************************************************************************)
EXTENDS Integers, Sequences, FiniteSets, TLC

VARIABLES
    fix,        \* the *Fix passed to ExecuteFix (NilFix for a nil pointer)
    config,     \* the executor's config: IsRoot, NonInteractive
    pc,         \* position of the ExecuteFix call
    i,          \* index of the forward loop (0-based, as in the source)
    j,          \* index of the reverse loop (0-based)
    calls,      \* every executeCommand call so far, in order
    prompts,    \* every prompt printed to the operator, in order
    stdin,      \* every line read from the input stream, in order
    log,        \* every logger call so far, in order
    ret,        \* the value ExecuteFix returned
    earlier     \* the finished ExecuteFix call the running one is compared with

VARIABLES
    ui,         \* position of the interface (SimpleUI.Run / runCustomDiagnosis)
    request,    \* what the running diagnosis was asked and what its probes gave
    diagnosis,  \* the Diagnosis the catalogue handler returned
    screen,     \* every showSuccess message printed so far, in order
    results,    \* the Results aggregate of runSystemCheck
    result,     \* the CheckResult the last Check.Run returned, not yet added
    sample,     \* what the host reported to that Check.Run
    summary     \* the SystemSummary Generate returned

execVars == <<fix, config, pc, i, j, calls, prompts, stdin, log, ret, earlier>>
uiVars == <<ui, request, diagnosis, screen>>
checkVars == <<results, result, sample, summary>>

vars == <<fix, config, pc, i, j, calls, prompts, stdin, log, ret, earlier,
          ui, request, diagnosis, screen, results, result, sample, summary>>

(***************************************************************************)
(* Bounds of the model                                                     *)
(***************************************************************************)
MaxCmds == 3        \* longest command list of a generated Fix
MaxValidated == 2   \* longest command list of a Fix generated for the validator
MaxReverse == 3     \* longest reverse-command list of a generated Fix

(***************************************************************************)
(* Go string functions                                                     *)
(***************************************************************************)
UpperChars == "ABCDEFGHIJKLMNOPQRSTUVWXYZ"
LowerChars == "abcdefghijklmnopqrstuvwxyz"

Char(s, k) == SubSeq(s, k, k)

\* the lower-case letter of every upper-case letter
LowerMap ==
    [c \in {Char(UpperChars, k) : k \in 1..Len(UpperChars)} |->
        Char(LowerChars, CHOOSE k \in 1..Len(UpperChars) : Char(UpperChars, k) = c)]

\* unicode.ToLower on one ASCII character
LowerOf(c) == IF c \in DOMAIN LowerMap THEN LowerMap[c] ELSE c

\* strings.ToLower over ASCII: lower[k] is the lower-cased text of s from
\* its k-th character on
ToLower(s) ==
    LET lower[k \in 1..(Len(s) + 1)] ==
            IF k > Len(s) THEN "" ELSE LowerOf(Char(s, k)) \o lower[k + 1]
    IN  lower[1]

\* strings.Contains: substr occurs in s at some offset
Contains(s, substr) ==
    \E k \in 1..(Len(s) - Len(substr) + 1) : SubSeq(s, k, k + Len(substr) - 1) = substr

\* unicode.IsSpace on one ASCII character
IsSpace(c) == c \in {" ", "\t", "\n", "\r"}

\* index of the first character of s at or after k that is no space,
\* Len(s) + 1 when there is none
SkipSpace(s, k) ==
    LET skip[m \in 1..(Len(s) + 1)] ==
            IF m <= Len(s) /\ IsSpace(Char(s, m)) THEN skip[m + 1] ELSE m
    IN  skip[k]

\* index of the first space of s at or after k, Len(s) + 1 when there is none
SkipWord(s, k) ==
    LET stop[m \in 1..(Len(s) + 1)] ==
            IF m > Len(s) \/ IsSpace(Char(s, m)) THEN m ELSE stop[m + 1]
    IN  stop[k]

TrimLeft(s) == SubSeq(s, SkipSpace(s, 1), Len(s))

TrimRight(s) ==
    LET last[m \in 0..Len(s)] ==
            IF m > 0 /\ IsSpace(Char(s, m)) THEN last[m - 1] ELSE m
    IN  SubSeq(s, 1, last[Len(s)])

\* strings.TrimSpace
TrimSpace(s) == TrimRight(TrimLeft(s))

\* length of the leading run of non-space characters of s
WordLen(s) == SkipWord(s, 1) - 1

\* strings.Fields: the maximal runs of non-space characters, in order;
\* from[k] is the fields of s from its k-th character on
Fields(s) ==
    LET from[k \in 1..(Len(s) + 1)] ==
            LET b == SkipSpace(s, k)
                e == SkipWord(s, b)
            IN  IF b > Len(s) THEN <<>>
                ELSE <<SubSeq(s, b, e - 1)>> \o from[e]
    IN  from[1]

(***************************************************************************)
(* RiskLevel                                                               *)
(***************************************************************************)
RiskLow == 0
RiskMedium == 1
RiskHigh == 2
RiskCritical == 3
RiskLevels == {RiskLow, RiskMedium, RiskHigh, RiskCritical}

(***************************************************************************)
(* Fix descriptors                                                         *)
(***************************************************************************)
NilFix == [nil |-> TRUE]

MkFix(id, title, descr, cmds, root, rev, revCmds, risk) ==
    [ID |-> id, Title |-> title, Description |-> descr, Commands |-> cmds,
     RequiresRoot |-> root, Reversible |-> rev, ReverseCommands |-> revCmds,
     RiskLevel |-> risk]

(***************************************************************************)
(* The catalogue: GetCommonFixes and DiagnoseDiskIssues                    *)
(***************************************************************************)
CommonFixIds ==
    {"update_package_cache", "clean_package_cache", "remove_orphaned_packages",
     "restart_networking", "flush_dns", "fix_broken_packages", "create_swap_file"}

GetCommonFixes ==
    [id \in CommonFixIds |->
       CASE id = "update_package_cache" ->
              MkFix(id, "Update Package Cache",
                    "Updates the APT package cache to refresh available package information",
                    <<"apt-get update">>, TRUE, FALSE, <<>>, RiskLow)
         [] id = "clean_package_cache" ->
              MkFix(id, "Clean Package Cache",
                    "Removes cached package files to free disk space",
                    <<"apt-get clean", "apt-get autoclean">>, TRUE, FALSE, <<>>, RiskLow)
         [] id = "remove_orphaned_packages" ->
              MkFix(id, "Remove Orphaned Packages",
                    "Removes packages that were automatically installed but are no longer needed",
                    <<"apt-get autoremove -y">>, TRUE, FALSE, <<>>, RiskMedium)
         [] id = "restart_networking" ->
              MkFix(id, "Restart Network Service",
                    "Restarts the networking service to resolve connection issues",
                    <<"systemctl restart networking">>, TRUE, TRUE,
                    <<"systemctl start networking">>, RiskMedium)
         [] id = "flush_dns" ->
              MkFix(id, "Flush DNS Cache",
                    "Clears the DNS resolver cache to fix name resolution issues",
                    <<"systemctl restart systemd-resolved">>, TRUE, TRUE,
                    <<"systemctl start systemd-resolved">>, RiskLow)
         [] id = "fix_broken_packages" ->
              MkFix(id, "Fix Broken Packages",
                    "Attempts to fix broken package dependencies",
                    <<"apt-get -f install", "dpkg --configure -a">>, TRUE, FALSE, <<>>, RiskMedium)
         [] id = "create_swap_file" ->
              MkFix(id, "Create Swap File (1GB)",
                    "Creates a 1GB swap file to improve system performance when memory is low",
                    <<"fallocate -l 1G /swapfile",
                      "chmod 600 /swapfile",
                      "mkswap /swapfile",
                      "swapon /swapfile",
                      "echo '/swapfile none swap sw 0 0' >> /etc/fstab">>,
                    TRUE, TRUE,
                    <<"swapoff /swapfile",
                      "rm /swapfile",
                      "sed -i '/\\/swapfile/d' /etc/fstab">>,
                    RiskMedium)]

\* The filesystems DiagnoseDiskIssues probes, with the name it reports for each
DiskFilesystems == {"Root", "Home", "Var", "Tmp"}

\* The finding one filesystem contributes.  pct is its usage in percent, or
\* -1 when syscall.Statfs returned an error.
DiskUsageFinding(pct) ==
    IF pct = -1 THEN "none"
    ELSE IF pct > 95 THEN "critical"
    ELSE IF pct > 85 THEN "warning"
    ELSE "none"

\* DiagnoseDiskIssues.  usage maps each probed filesystem to its usage (or -1),
\* order is the order in which Go iterates the filesystems map, dmesgOk says
\* whether dmesg ran, and ioError whether its output names an I/O or disk error.
DiagnoseDiskIssues(usage, order, dmesgOk, ioError) ==
    LET common == GetCommonFixes
        usageFindings ==
            LET RECURSIVE Walk(_)
                Walk(k) ==
                    IF k > Len(order) THEN <<>>
                    ELSE LET kind == DiskUsageFinding(usage[order[k]])
                         IN  (IF kind = "none" THEN <<>>
                              ELSE <<[fs |-> order[k], kind |-> kind, pct |-> usage[order[k]]]>>)
                             \o Walk(k + 1)
            IN  Walk(1)
        cleanup ==
            (IF "clean_package_cache" \in DOMAIN common
             THEN <<common["clean_package_cache"]>> ELSE <<>>)
            \o (IF "remove_orphaned_packages" \in DOMAIN common
                THEN <<common["remove_orphaned_packages"]>> ELSE <<>>)
        analysis ==
            <<MkFix("find_large_files", "Find Large Files",
                    "Find files larger than 100MB to identify disk space usage",
                    <<"find / -type f -size +100M 2>/dev/null | head -20">>,
                    FALSE, FALSE, <<>>, RiskLow),
              MkFix("clear_old_logs", "Clear Old System Logs",
                    "Remove system logs older than 7 days to free space",
                    <<"journalctl --vacuum-time=7d">>, TRUE, FALSE, <<>>, RiskLow)>>
        ioHit == dmesgOk /\ ioError
        ioFixes ==
            IF ioHit
            THEN <<MkFix("check_disk_health", "Check Disk Health",
                         "Use SMART tools to check disk health and identify potential failures",
                         <<"smartctl -a /dev/sda">>, TRUE, FALSE, <<>>, RiskLow),
                   MkFix("filesystem_check", "Filesystem Check",
                         "Run filesystem check to repair errors (WARNING: requires unmounting filesystem)",
                         <<"umount /dev/sda1", "fsck -f /dev/sda1", "mount /dev/sda1">>,
                         TRUE, TRUE, <<"mount /dev/sda1">>, RiskHigh)>>
            ELSE <<>>
        speed ==
            <<MkFix("test_disk_speed", "Test Disk Write Speed",
                    "Test disk write performance (creates and removes a 1GB test file)",
                    <<"dd if=/dev/zero of=/tmp/test bs=1M count=1024 conv=fdatasync",
                      "rm -f /tmp/test">>,
                    FALSE, TRUE, <<"rm -f /tmp/test">>, RiskLow)>>
        found == usageFindings
                 \o (IF ioHit THEN <<[fs |-> "", kind |-> "io", pct |-> 0]>> ELSE <<>>)
    IN  [Issue |-> "Disk Issues",
         Findings |-> IF Len(found) = 0
                      THEN <<[fs |-> "", kind |-> "no issues", pct |-> 0]>>
                      ELSE found,
         Fixes |-> cleanup \o analysis \o ioFixes \o speed]

(***************************************************************************)
(* Executor.validateFix                                                    *)
(***************************************************************************)
dangerousPatterns == <<"rm -rf /", "dd if=", "mkfs", "fdisk", "parted", "> /dev/">>

ErrNil == "fix is nil"
ErrTitle == "fix title is required"
ErrNoCommands == "fix has no commands"
ErrDangerous == "dangerous command detected: "
NoError == ""

\* IsDangerous without the lower-casing of the command
IsDangerous_CaseSensitive(cmd) ==
    \E p \in 1..Len(dangerousPatterns) : Contains(cmd, dangerousPatterns[p])

\* the inner loop: cmd matches some pattern once lower-cased
IsDangerous(cmd) ==
    \E p \in 1..Len(dangerousPatterns) : Contains(ToLower(cmd), dangerousPatterns[p])

\* validateFix with the command-count check placed before the title check
validateFix_CommandsFirst(f) ==
    IF f = NilFix THEN ErrNil
    ELSE IF Len(f.Commands) = 0 THEN ErrNoCommands
    ELSE IF f.Title = "" THEN ErrTitle
    ELSE LET bad == {k \in 1..Len(f.Commands) : IsDangerous(f.Commands[k])}
         IN  IF bad # {}
             THEN ErrDangerous \o f.Commands[CHOOSE k \in bad : \A m \in bad : k <= m]
             ELSE NoError

\* the error text validateFix returns, NoError for a nil error
validateFix(f) ==
    IF f = NilFix THEN ErrNil
    ELSE IF f.Title = "" THEN ErrTitle
    ELSE IF Len(f.Commands) = 0 THEN ErrNoCommands
    ELSE LET bad == {k \in 1..Len(f.Commands) : IsDangerous(f.Commands[k])}
         IN  IF bad # {}
             THEN ErrDangerous \o f.Commands[CHOOSE k \in bad : \A m \in bad : k <= m]
             ELSE NoError

(***************************************************************************)
(* RiskLevel.String and RiskLevel.Color                                    *)
(***************************************************************************)
\* RiskLevel.String without a case for RiskCritical
RiskString_NoCritical(r) ==
    CASE r = RiskLow -> "Low"
      [] r = RiskMedium -> "Medium"
      [] r = RiskHigh -> "High"
      [] OTHER -> "Unknown"

RiskString(r) ==
    CASE r = RiskLow -> "Low"
      [] r = RiskMedium -> "Medium"
      [] r = RiskHigh -> "High"
      [] r = RiskCritical -> "Critical"
      [] OTHER -> "Unknown"

RiskColor(r) ==
    CASE r = RiskLow -> "green"
      [] r = RiskMedium -> "yellow"
      [] r = RiskHigh -> "red"
      [] r = RiskCritical -> "magenta"
      [] OTHER -> "white"

(***************************************************************************)
(* Inputs: the Fix handed to ExecuteFix, the operator's answers and the    *)
(* results of subprocesses                                                 *)
(***************************************************************************)
\* all sequences over S of a length in lo..hi
SeqsOf(S, lo, hi) == UNION {[1..n -> S] : n \in lo..hi}

TitlePool == {"", "Test Fix"}

\* command strings that exercise the denylist and its near misses
ValidationCmds ==
    {"rm -rf /", "RM -RF /var/tmp", "rm -rf ./build",
     "dd if=/dev/zero of=/dev/sda", "dd of=/tmp/out",
     "sudo Mkfs.ext4 /dev/sdb1", "mkswap /swapfile",
     "FDISK -l", "Parted /dev/sda print",
     "echo x > /dev/null", "echo x >/dev/null",
     "echo 'hello world'", "ls -la /tmp", ""}

\* command strings of the Fixes that are run: a well-formed one, and one
\* that strings.Fields reduces to no program name
ExecCmds == {"echo test", "  "}

ReverseCmds == {"undo step"}

\* Fixes that probe the validator; the remaining fields are Go's zero values
ValidationFixes ==
    {MkFix("", t, "", cmds, FALSE, FALSE, <<>>, RiskLow) :
        t \in TitlePool, cmds \in SeqsOf(ValidationCmds, 0, MaxValidated)}

\* Fixes that probe the executor
ExecutionFixes ==
    {MkFix("test_fix", "Test Fix", "Test fix", cmds, root, rev, revCmds, risk) :
        cmds \in SeqsOf(ExecCmds, 1, MaxCmds), root \in BOOLEAN, rev \in BOOLEAN,
        revCmds \in SeqsOf(ReverseCmds, 0, MaxReverse), risk \in RiskLevels}

\* every Fix the catalogue modelled here can hand out
CatalogFixes ==
    {GetCommonFixes[id] : id \in CommonFixIds}
    \cup UNION {{d.Fixes[k] : k \in 1..Len(d.Fixes)} :
                 d \in {DiagnoseDiskIssues([fs \in DiskFilesystems |-> 50],
                                           <<"Root", "Home", "Var", "Tmp">>, TRUE, io) :
                        io \in BOOLEAN}}

FixInputs == {NilFix} \cup ValidationFixes \cup ExecutionFixes \cup CatalogFixes

\* lines the operator can type (ReadString returns the line with its newline;
\* at end of input it returns what was read, without one)
AnswerPool == {"", "\n", "y\n", " YES \n", "n\n", "yes please\n"}

\* what running a subprocess can give: exit status 0, a non-zero exit
\* status, or a failure to start the program
CmdResults == {"ok", "exit", "spawn"}

(***************************************************************************)
(* The executor                                                            *)
(***************************************************************************)
RetPending == [kind |-> "pending", msg |-> "", at |-> 0, cause |-> ""]
RetNil == [kind |-> "nil", msg |-> "", at |-> 0, cause |-> ""]
\* RetError that hands the caller a nil error
RetError_Nil(msg, at, cause) == [kind |-> "nil", msg |-> "", at |-> 0, cause |-> ""]

\* a non-nil error built by fmt.Errorf
RetError(msg, at, cause) == [kind |-> "error", msg |-> msg, at |-> at, cause |-> cause]

LogEntry(level, msg, n) == [level |-> level, msg |-> msg, n |-> n]

\* the permission check refusing a Critical Fix as well
PermissionDenied_OrCritical(f, cfg) ==
    (f.RequiresRoot /\ ~cfg.IsRoot) \/ f.RiskLevel = RiskCritical

\* the permission check with the privilege test inverted
PermissionDenied_Inverted(f, cfg) == f.RequiresRoot /\ cfg.IsRoot

\* ExecuteFix's permission check
PermissionDenied(f, cfg) == f.RequiresRoot /\ ~cfg.IsRoot

\* what confirmExecution prints before it reads the answer
ConfirmPrompt(f) ==
    [kind |-> "confirm", title |-> f.Title, risk |-> RiskString(f.RiskLevel),
     requiresRoot |-> f.RequiresRoot, reversible |-> f.Reversible,
     commands |-> f.Commands, warning |-> (f.RiskLevel >= RiskHigh), step |-> 0]

\* what offerReverse prints before it reads the answer
ReversePrompt(f, failedAt) ==
    [kind |-> "reverse", title |-> f.Title, risk |-> RiskString(f.RiskLevel),
     requiresRoot |-> f.RequiresRoot, reversible |-> f.Reversible,
     commands |-> f.Commands, warning |-> FALSE, step |-> failedAt + 1]

\* IsAffirmative with an empty answer taken as the default yes
IsAffirmative_DefaultYes(response) ==
    LET r == TrimSpace(ToLower(response))
    IN  r = "" \/ r = "y" \/ r = "yes"

\* the test confirmExecution and offerReverse apply to the line they read
IsAffirmative(response) ==
    LET r == TrimSpace(ToLower(response))
    IN  r = "y" \/ r = "yes"

\* executeCommand: the error text it returns ("" for nil); res is the
\* subprocess's result, unused when there is no program to start
executeCommand(cmdStr, res) ==
    IF Len(Fields(cmdStr)) = 0 THEN "empty command"
    ELSE IF res = "ok" THEN ""
    ELSE IF res = "exit" THEN "command exited with code"
    ELSE "exec: program not started"

\* the record of one executeCommand call
CallEntry(dir, idx, cmdStr, res) ==
    [dir |-> dir, idx |-> idx, cmd |-> cmdStr, argv |-> Fields(cmdStr),
     spawned |-> (Len(Fields(cmdStr)) # 0), err |-> executeCommand(cmdStr, res)]

\* CommandFailed that takes only a non-zero exit status for a failure
CommandFailed_ExitOnly(err) == err = "command exited with code"

\* the test ExecuteFix and reverseFix apply to executeCommand's error
CommandFailed(err) == err # ""

\* OffersReverse without the test for a first command
OffersReverse_AnyIndex(f, k) == f.Reversible

\* ExecuteFix's test for offering a rollback after command k failed
OffersReverse(f, k) == k > 0 /\ f.Reversible

\* reverseFix's loop: the next index at or below k that has a reverse
\* command, -1 when the loop runs out
RECURSIVE NextReverse(_, _)
NextReverse(f, k) ==
    IF k < 0 THEN -1
    ELSE IF k < Len(f.ReverseCommands) THEN k
    ELSE NextReverse(f, k - 1)

\* ReverseAfter that leaves the loop at the first failed step
ReverseAfter_StopOnError(f, k, err) == IF err = "" THEN NextReverse(f, k - 1) ELSE -1

\* reverseFix's loop after step k returned err: the error is logged and the
\* loop goes on to the next lower index
ReverseAfter(f, k, err) == NextReverse(f, k - 1)

\* diagnose.Diagnosis before a handler has filled it
NoDiagnosis == [Issue |-> "", Findings |-> <<>>, Fixes |-> <<>>]

\* no diagnosis has been asked for
NoRequest == [issueType |-> ""]

\* checks.NewResults
NewResults == [checks |-> <<>>, errors |-> <<>>, warnings |-> <<>>, info |-> <<>>]

\* no CheckResult is waiting to be added, and no host sample was taken
NoResult == [none |-> TRUE]
NoSample == [check |-> ""]

\* Generate has not been called
NoSummary == [none |-> TRUE]

\* no earlier ExecuteFix call was kept
NoEarlier == [none |-> TRUE]

\* the interface is not running
UIOff ==
    /\ ui = "off"
    /\ request = NoRequest
    /\ diagnosis = NoDiagnosis
    /\ screen = <<>>

\* no system check is running
ChecksOff ==
    /\ results = NewResults
    /\ result = NoResult
    /\ sample = NoSample
    /\ summary = NoSummary

\* no ExecuteFix call is running
ExecutorOff ==
    /\ fix = NilFix
    /\ pc = "idle"
    /\ i = 0
    /\ j = 0
    /\ calls = <<>>
    /\ prompts = <<>>
    /\ stdin = <<>>
    /\ log = <<>>
    /\ ret = RetPending
    /\ earlier = NoEarlier

Init ==
    /\ fix \in FixInputs
    /\ config \in [IsRoot : BOOLEAN, NonInteractive : BOOLEAN]
    /\ pc = "call"
    /\ i = 0
    /\ j = 0
    /\ calls = <<>>
    /\ prompts = <<>>
    /\ stdin = <<>>
    /\ log = <<>>
    /\ ret = RetPending
    /\ earlier = NoEarlier
    /\ UIOff
    /\ ChecksOff

\* ExecuteFix that asks for confirmation of a High or Critical Fix in
\* non-interactive mode too
ExecuteFix_ConfirmHighRisk ==
    /\ pc = "call"
    /\ LET err == validateFix(fix)
       IN  IF err # NoError
           THEN /\ ret' = RetError("fix validation failed", 0, err)
                /\ pc' = "done"
                /\ UNCHANGED <<prompts, log>>
           ELSE IF PermissionDenied(fix, config)
           THEN /\ ret' = RetError("fix requires root privileges", 0, fix.Title)
                /\ pc' = "done"
                /\ UNCHANGED <<prompts, log>>
           ELSE IF ~config.NonInteractive \/ fix.RiskLevel >= RiskHigh
           THEN /\ prompts' = Append(prompts, ConfirmPrompt(fix))
                /\ pc' = "confirm"
                /\ UNCHANGED <<ret, log>>
           ELSE /\ log' = Append(log, LogEntry("INFO", "Executing fix", 0))
                /\ pc' = "run"
                /\ UNCHANGED <<ret, prompts>>
    /\ UNCHANGED <<fix, config, i, j, calls, stdin>>
    /\ UNCHANGED <<earlier, uiVars, checkVars>>

\* ExecuteFix from its entry to the confirmation prompt (or, in
\* non-interactive mode, to the first command)
ExecuteFix ==
    /\ pc = "call"
    /\ LET err == validateFix(fix)
       IN  IF err # NoError
           THEN /\ ret' = RetError("fix validation failed", 0, err)
                /\ pc' = "done"
                /\ UNCHANGED <<prompts, log>>
           ELSE IF PermissionDenied(fix, config)
           THEN /\ ret' = RetError("fix requires root privileges", 0, fix.Title)
                /\ pc' = "done"
                /\ UNCHANGED <<prompts, log>>
           ELSE IF ~config.NonInteractive
           THEN /\ prompts' = Append(prompts, ConfirmPrompt(fix))
                /\ pc' = "confirm"
                /\ UNCHANGED <<ret, log>>
           ELSE /\ log' = Append(log, LogEntry("INFO", "Executing fix", 0))
                /\ pc' = "run"
                /\ UNCHANGED <<ret, prompts>>
    /\ UNCHANGED <<fix, config, i, j, calls, stdin>>
    /\ UNCHANGED <<earlier, uiVars, checkVars>>

\* confirmExecution returns with the operator's line
confirmExecution(response) ==
    /\ pc = "confirm"
    /\ stdin' = Append(stdin, response)
    /\ IF ~IsAffirmative(response)
       THEN /\ log' = Append(log, LogEntry("INFO", "Fix execution cancelled by user", 0))
            /\ ret' = RetNil
            /\ pc' = "done"
       ELSE /\ log' = Append(log, LogEntry("INFO", "Executing fix", 0))
            /\ pc' = "run"
            /\ UNCHANGED ret
    /\ UNCHANGED <<fix, config, i, j, calls, prompts>>
    /\ UNCHANGED <<earlier, uiVars, checkVars>>

\* one iteration of ExecuteFix's loop over fix.Commands
runCommand(res) ==
    /\ pc = "run"
    /\ LET cmd == fix.Commands[i + 1]
           err == executeCommand(cmd, res)
           log1 == Append(log, LogEntry("INFO", "Running command", i + 1))
           log2 == Append(log1, LogEntry("ERROR", "Command failed", 0))
       IN  /\ calls' = Append(calls, CallEntry("forward", i, cmd, res))
           /\ IF ~CommandFailed(err)
              THEN IF i + 1 < Len(fix.Commands)
                   THEN /\ i' = i + 1
                        /\ log' = log1
                        /\ UNCHANGED <<pc, ret, prompts>>
                   ELSE /\ log' = Append(log1, LogEntry("INFO", "Fix executed successfully", 0))
                        /\ ret' = RetNil
                        /\ pc' = "done"
                        /\ UNCHANGED <<i, prompts>>
              ELSE /\ log' = log2
                   /\ IF OffersReverse(fix, i) /\ fix.Reversible
                      THEN /\ prompts' = Append(prompts, ReversePrompt(fix, i))
                           /\ pc' = "offer"
                           /\ UNCHANGED <<i, ret>>
                      ELSE /\ ret' = RetError("fix execution failed at command", i + 1, err)
                           /\ pc' = "done"
                           /\ UNCHANGED <<i, prompts>>
    /\ UNCHANGED <<fix, config, j, stdin>>
    /\ UNCHANGED <<earlier, uiVars, checkVars>>

\* offerReverse returns with the operator's line; on a yes reverseFix starts
offerReverse(response) ==
    /\ pc = "offer"
    /\ stdin' = Append(stdin, response)
    /\ LET cause == calls[Len(calls)].err
           first == NextReverse(fix, i - 1)
           log1 == Append(log, LogEntry("INFO", "Reversing fix up to step", i))
       IN  IF ~IsAffirmative(response)
           THEN /\ ret' = RetError("fix execution failed at command", i + 1, cause)
                /\ pc' = "done"
                /\ UNCHANGED <<j, log>>
           ELSE IF first < 0
           THEN /\ log' = Append(log1, LogEntry("INFO", "Fix reversal completed", 0))
                /\ ret' = RetError("fix execution failed at command", i + 1, cause)
                /\ pc' = "done"
                /\ UNCHANGED j
           ELSE /\ log' = log1
                /\ j' = first
                /\ pc' = "reverse"
                /\ UNCHANGED ret
    /\ UNCHANGED <<fix, config, i, calls, prompts>>
    /\ UNCHANGED <<earlier, uiVars, checkVars>>

\* reverseFix after which ExecuteFix returns nil when the last reverse step
\* succeeded
reverseFix_RollbackClearsError(res) ==
    /\ pc = "reverse"
    /\ LET cmd == fix.ReverseCommands[j + 1]
           err == executeCommand(cmd, res)
           cause == calls[i + 1].err
           next == ReverseAfter(fix, j, err)
           log1 == Append(log, LogEntry("INFO", "Reversing step", j + 1))
           log2 == IF ~CommandFailed(err) THEN log1
                   ELSE Append(log1, LogEntry("ERROR", "Failed to reverse step", j + 1))
       IN  /\ calls' = Append(calls, CallEntry("reverse", j, cmd, res))
           /\ IF next >= 0
              THEN /\ j' = next
                   /\ log' = log2
                   /\ UNCHANGED <<pc, ret>>
              ELSE /\ log' = Append(log2, LogEntry("INFO", "Fix reversal completed", 0))
                   /\ ret' = IF CommandFailed(err)
                             THEN RetError("fix execution failed at command", i + 1, cause)
                             ELSE RetNil
                   /\ pc' = "done"
                   /\ UNCHANGED j
    /\ UNCHANGED <<fix, config, i, prompts, stdin>>
    /\ UNCHANGED <<earlier, uiVars, checkVars>>

\* one iteration of reverseFix's loop that has a reverse command to run
reverseFix(res) ==
    /\ pc = "reverse"
    /\ LET cmd == fix.ReverseCommands[j + 1]
           err == executeCommand(cmd, res)
           cause == calls[i + 1].err
           next == ReverseAfter(fix, j, err)
           log1 == Append(log, LogEntry("INFO", "Reversing step", j + 1))
           log2 == IF ~CommandFailed(err) THEN log1
                   ELSE Append(log1, LogEntry("ERROR", "Failed to reverse step", j + 1))
       IN  /\ calls' = Append(calls, CallEntry("reverse", j, cmd, res))
           /\ IF next >= 0
              THEN /\ j' = next
                   /\ log' = log2
                   /\ UNCHANGED <<pc, ret>>
              ELSE /\ log' = Append(log2, LogEntry("INFO", "Fix reversal completed", 0))
                   /\ ret' = RetError("fix execution failed at command", i + 1, cause)
                   /\ pc' = "done"
                   /\ UNCHANGED j
    /\ UNCHANGED <<fix, config, i, prompts, stdin>>
    /\ UNCHANGED <<earlier, uiVars, checkVars>>

Next ==
    \/ ExecuteFix
    \/ \E response \in AnswerPool : confirmExecution(response)
    \/ \E res \in CmdResults : runCommand(res)
    \/ \E response \in AnswerPool : offerReverse(response)
    \/ \E res \in CmdResults : reverseFix(res)

Spec == Init /\ [][Next]_vars

\* every prompt is answered and every subprocess terminates: a call that can
\* take its next step eventually takes it
SpecFair == Init /\ [][Next]_vars /\ WF_vars(Next)

(***************************************************************************)
(* Two calls on one executor: after a call has returned, the caller hands  *)
(* ExecuteFix the same Fix under another RiskLevel, and the operator and   *)
(* the subprocesses answer the second call as they answered the first.     *)
(***************************************************************************)
\* the caller keeps what the finished call did and calls ExecuteFix again
\* with a Fix that differs in RiskLevel only
ExecuteFixAgain(risk) ==
    /\ pc = "done"
    /\ earlier = NoEarlier
    /\ fix # NilFix
    /\ risk # fix.RiskLevel
    /\ earlier' = [fix |-> fix, calls |-> calls, prompts |-> prompts,
                   stdin |-> stdin, log |-> log, ret |-> ret]
    /\ fix' = [fix EXCEPT !.RiskLevel = risk]
    /\ pc' = "call"
    /\ i' = 0
    /\ j' = 0
    /\ calls' = <<>>
    /\ prompts' = <<>>
    /\ stdin' = <<>>
    /\ log' = <<>>
    /\ ret' = RetPending
    /\ UNCHANGED <<config, uiVars, checkVars>>

\* the operator's next line is the one the earlier call read at this point
SameAnswer(response) ==
    IF earlier = NoEarlier THEN TRUE
    ELSE IF Len(stdin) >= Len(earlier.stdin) THEN TRUE
    ELSE response = earlier.stdin[Len(stdin) + 1]

\* the next subprocess ends as the one the earlier call ran at this point
SameResult(res) ==
    IF earlier = NoEarlier THEN TRUE
    ELSE IF Len(calls) >= Len(earlier.calls) THEN TRUE
    ELSE LET before == earlier.calls[Len(calls) + 1]
         IN  executeCommand(before.cmd, res) = before.err

InitRisk ==
    /\ Init
    /\ fix \in ExecutionFixes

NextRisk ==
    \/ ExecuteFix
    \/ \E response \in AnswerPool : SameAnswer(response) /\ confirmExecution(response)
    \/ \E res \in CmdResults : SameResult(res) /\ runCommand(res)
    \/ \E response \in AnswerPool : SameAnswer(response) /\ offerReverse(response)
    \/ \E res \in CmdResults : SameResult(res) /\ reverseFix(res)
    \/ \E risk \in RiskLevels : ExecuteFixAgain(risk)

SpecRisk == InitRisk /\ [][NextRisk]_vars

(***************************************************************************)
(* The catalogue handlers of package diagnose.  A handler is a function of *)
(* what its probes gave; a probe is the host, so its outcome is an input.  *)
(* An exec probe can fail to start ("spawn"), exit non-zero ("exit") or    *)
(* succeed with some output; Go's Output() reports the first two as err.   *)
(***************************************************************************)
\* strings.Join
RECURSIVE Join(_, _)
Join(elems, sep) ==
    IF Len(elems) = 0 THEN ""
    ELSE IF Len(elems) = 1 THEN elems[1]
    ELSE elems[1] \o sep \o Join(Tail(elems), sep)

\* fmt's %.1f of a whole number
Percent(n) == ToString(n) \o ".0%"

MkDiagnosis(issue, findings, fixes) ==
    [Issue |-> issue, Findings |-> findings, Fixes |-> fixes]

\* what the three probes of DiagnoseBootIssues can give: the output of
\* systemctl is-system-running, the number of non-empty journalctl lines
\* (-1 when journalctl gave an error) and whether mount lists an "ro," entry
BootProbes ==
    [state : {"spawn", "exit", "degraded", "running", "maintenance"},
     journal : {-1, 0, 3},
     mount : {"spawn", "exit", "ro", "rw"}]

ExecErr(outcome) == outcome \in {"spawn", "exit"}

DiagnoseBootIssues(p) ==
    LET stateF ==
            IF ExecErr(p.state) THEN <<>>
            ELSE IF p.state = "degraded" THEN <<"System is in degraded state">>
            ELSE IF p.state = "running" THEN <<"System is running normally">>
            ELSE <<"System state: " \o p.state>>
        stateX ==
            IF p.state = "degraded"
            THEN <<MkFix("show_failed_services", "Show Failed Services",
                         "Display services that failed to start during boot",
                         <<"systemctl --failed">>,
                         FALSE, FALSE, <<>>, RiskLow)>>
            ELSE <<>>
        journalHit == p.journal > 0
        journalF == IF journalHit THEN <<"Boot errors detected in system journal">> ELSE <<>>
        journalX ==
            IF journalHit
            THEN <<MkFix("view_boot_errors", "View Boot Errors",
                         "Display boot-time errors from the system journal",
                         <<"journalctl -b -p err">>,
                         FALSE, FALSE, <<>>, RiskLow)>>
            ELSE <<>>
        mountHit == p.mount = "ro"
        mountF == IF mountHit THEN <<"Read-only filesystem detected">> ELSE <<>>
        mountX ==
            IF mountHit
            THEN <<MkFix("remount_rw", "Remount Filesystem Read-Write",
                         "Remount the root filesystem as read-write to allow modifications",
                         <<"mount -o remount,rw /">>,
                         TRUE, TRUE, <<"mount -o remount,ro /">>, RiskMedium)>>
            ELSE <<>>
        found == stateF \o journalF \o mountF
    IN  MkDiagnosis("Boot Issues",
                    IF Len(found) = 0 THEN <<"No boot issues detected">> ELSE found,
                    stateX \o journalX \o mountX)

\* what the probes of DiagnosePerformanceIssues can give: CPU, memory and
\* swap usage in percent (-1 when gopsutil gave an error), the two ps runs,
\* and the load average against twice the core count
PerformanceProbes ==
    [cpu : {-1, 50, 95}, psCpu : {"spawn", "rows"},
     mem : {-1, 50, 90}, psMem : {"spawn", "rows"},
     load : {"err", "high", "normal"},
     swap : {-1, 10, 60}]

DiagnosePerformanceIssues(p) ==
    LET cpuF ==
            IF p.cpu = -1 THEN <<>>
            ELSE IF p.cpu > 80
            THEN <<"High CPU usage: " \o Percent(p.cpu)>>
                 \o (IF p.psCpu = "rows"
                     THEN <<"Top CPU consumers:", "  - firefox: 42.0% CPU">>
                     ELSE <<>>)
            ELSE <<"CPU usage normal: " \o Percent(p.cpu)>>
        memHit == p.mem # -1 /\ p.mem > 85
        memF ==
            IF p.mem = -1 THEN <<>>
            ELSE IF memHit
            THEN <<"High memory usage: " \o Percent(p.mem)>>
                 \o (IF p.psMem = "rows"
                     THEN <<"Top memory consumers:", "  - firefox: 12.5% MEM">>
                     ELSE <<>>)
            ELSE <<"Memory usage normal: " \o Percent(p.mem)>>
        memX ==
            IF memHit
            THEN <<MkFix("clear_caches", "Clear System Caches",
                         "Clear system caches",
                         <<"sync", "echo 3 > /proc/sys/vm/drop_caches">>,
                         TRUE, FALSE, <<>>, RiskLow)>>
            ELSE <<>>
        loadF ==
            IF p.load = "err" THEN <<>>
            ELSE IF p.load = "high" THEN <<"High system load: 9.50 (cores: 4)">>
            ELSE <<"System load normal: 0.50">>
        loadX ==
            IF p.load = "high"
            THEN <<MkFix("view_processes", "View Running Processes",
                         "View running processes",
                         <<"ps aux --sort=-%cpu | head -20">>,
                         FALSE, FALSE, <<>>, RiskLow)>>
            ELSE <<>>
        swapHit == p.swap # -1 /\ p.swap > 50
        swapF ==
            IF swapHit
            THEN <<"High swap usage: " \o Percent(p.swap) \o " - possible memory pressure">>
            ELSE <<>>
        swapX ==
            IF swapHit
            THEN <<MkFix("clear_swap", "Clear Swap Memory",
                         "Clear swap (requires sufficient RAM)",
                         <<"swapoff -a", "swapon -a">>,
                         TRUE, FALSE, <<>>, RiskHigh)>>
            ELSE <<>>
        found == cpuF \o memF \o loadF \o swapF
    IN  MkDiagnosis("Performance Issues",
                    IF Len(found) = 0 THEN <<"No performance issues detected">> ELSE found,
                    memX \o loadX \o swapX)

\* what the probes of DiagnoseNetworkIssues can give: systemctl is-active
\* networking, net.Interfaces (an error, or the names of the interfaces that
\* are down, which the host keeps distinct), the DNS lookup, and ip route
NetworkProbes ==
    [networking : {"spawn", "exit", "active", "unknown"},
     interfaces : {[err |-> TRUE, down |-> <<>>]}
                  \cup {[err |-> FALSE, down |-> d] :
                          d \in {<<>>, <<"eth0">>, <<"eth0", "wlan0">>}},
     dns : {"ok", "fail"},
     route : {"spawn", "exit", "empty", "present"}]

\* the Fix for one interface that is down, under an id that does not name it
bring_up_SharedId(iface) ==
    MkFix("bring_up_interface", "Bring Up Interface " \o iface,
          "Bring up interface " \o iface,
          <<"ip link set " \o iface \o " up">>,
          TRUE, TRUE, <<"ip link set " \o iface \o " down">>, RiskMedium)

\* the Fix for one interface that is down
bring_up(iface) ==
    MkFix("bring_up_" \o iface, "Bring Up Interface " \o iface,
          "Bring up interface " \o iface,
          <<"ip link set " \o iface \o " up">>,
          TRUE, TRUE, <<"ip link set " \o iface \o " down">>, RiskMedium)

DiagnoseNetworkIssues(p) ==
    LET serviceHit == ExecErr(p.networking)
        serviceF ==
            IF serviceHit THEN <<"Networking service is not running">>
            ELSE IF p.networking = "active" THEN <<"Networking service is active">>
            ELSE <<>>
        serviceX ==
            IF serviceHit
            THEN <<MkFix("restart_networking", "Restart Networking Service",
                         "Restart networking service",
                         <<"systemctl restart networking">>,
                         TRUE, FALSE, <<>>, RiskMedium)>>
            ELSE <<>>
        down == p.interfaces.down
        ifaceF ==
            IF p.interfaces.err THEN <<>>
            ELSE IF Len(down) > 0 THEN <<"Interfaces down: " \o Join(down, ", ")>>
            ELSE <<"All network interfaces are up">>
        ifaceX ==
            IF p.interfaces.err THEN <<>>
            ELSE [k \in 1..Len(down) |-> bring_up(down[k])]
        dnsHit == p.dns = "fail"
        dnsF == IF dnsHit THEN <<"DNS resolution failed">> ELSE <<"DNS resolution working">>
        dnsX ==
            IF dnsHit
            THEN <<MkFix("reset_dns", "Reset DNS Configuration",
                         "Reset DNS configuration",
                         <<"echo 'nameserver 8.8.8.8' > /etc/resolv.conf">>,
                         TRUE, FALSE, <<>>, RiskHigh)>>
            ELSE <<>>
        routeHit == p.route = "empty"
        routeF ==
            IF ExecErr(p.route) THEN <<>>
            ELSE IF routeHit THEN <<"No default route configured">>
            ELSE <<"Default route configured">>
        routeX ==
            IF routeHit
            THEN <<MkFix("add_default_route", "Add Default Route",
                         "Add default route (replace IP with your gateway)",
                         <<"ip route add default via 192.168.1.1">>,
                         TRUE, TRUE, <<"ip route del default via 192.168.1.1">>, RiskHigh)>>
            ELSE <<>>
        found == serviceF \o ifaceF \o dnsF \o routeF
    IN  MkDiagnosis("Network Issues",
                    IF Len(found) = 0 THEN <<"No network issues detected">> ELSE found,
                    serviceX \o ifaceX \o dnsX \o routeX)

\* what the probes of DiagnoseDiskIssues can give: the usage of each probed
\* filesystem, the order in which Go walks its map of filesystems, and dmesg
DiskOrders ==
    {<<"Root", "Home", "Var", "Tmp">>, <<"Tmp", "Var", "Home", "Root">>,
     <<"Home", "Root", "Tmp", "Var">>, <<"Var", "Tmp", "Root", "Home">>}

DiskProbes ==
    [usage : [DiskFilesystems -> {-1, 90, 96}],
     order : DiskOrders,
     dmesg : {"spawn", "clean", "io error"}]

\* the findings of the handlers below are the strings the source appends;
\* those of DiagnoseDiskIssues are kept as the records it is modelled with
DiskFindingText(f) ==
    IF f.kind = "critical"
    THEN f.fs \o " filesystem critical: " \o ToString(f.pct) \o "% full"
    ELSE IF f.kind = "warning"
    THEN f.fs \o " filesystem warning: " \o ToString(f.pct) \o "% full"
    ELSE IF f.kind = "io" THEN "Disk I/O errors detected in kernel log"
    ELSE "No disk issues detected"

DiagnoseDisk(p) ==
    LET d == DiagnoseDiskIssues(p.usage, p.order, p.dmesg # "spawn", p.dmesg = "io error")
    IN  MkDiagnosis(d.Issue,
                    [k \in 1..Len(d.Findings) |-> DiskFindingText(d.Findings[k])],
                    d.Fixes)

\* a helper either reports nothing or reports one item
Reports(item) == {<<>>, <<item>>}

\* a header line followed by one bullet per item
Itemize(header, items) ==
    IF Len(items) = 0 THEN <<>>
    ELSE <<header>> \o [k \in 1..Len(items) |-> "  - " \o items[k]]

\* a line counting the items, the first cap of them, and a line counting the rest
CappedWith(prefix, suffix, items, cap, more) ==
    IF Len(items) = 0 THEN <<>>
    ELSE <<prefix \o ToString(Len(items)) \o suffix>>
         \o [k \in 1..(IF Len(items) < cap THEN Len(items) ELSE cap) |-> "  - " \o items[k]]
         \o (IF Len(items) > cap
             THEN <<"  ... and " \o ToString(Len(items) - cap) \o more>>
             ELSE <<>>)

Capped(header, items, cap, more) == CappedWith(header, "", items, cap, more)

\* what the helpers of DiagnoseFilesystemIssues can return (each is a list
\* of what it found, empty when it found nothing or could not run)
FilesystemProbes ==
    [readOnly : Reports("/ (ext4)"), space : Reports("/var: 97% full"),
     inode : Reports("/tmp: 95% inodes used"), corruption : Reports("EXT4-fs error"),
     mount : Reports("Failed mount unit: data.mount"),
     symlinks : Reports("/usr/bin/old-tool"), performance : Reports("High I/O wait detected")]

DiagnoseFilesystemIssues(p) ==
    LET common == GetCommonFixes
        readOnlyHit == Len(p.readOnly) > 0
        readOnlyF == Itemize("Read-only filesystems detected:", p.readOnly)
        readOnlyX ==
            IF readOnlyHit
            THEN <<MkFix("remount_rw", "Remount Filesystems Read-Write",
                    "Attempt to remount read-only filesystems as read-write",
                    <<"mount -o remount,rw /">>,
                    TRUE, TRUE, <<"mount -o remount,ro /">>, RiskMedium)>>
                 \o <<MkFix("check_filesystem_errors", "Check for Filesystem Errors",
                    "Check filesystem for errors that might cause read-only state",
                    <<"dmesg | grep -i 'filesystem\\|ext4\\|ext3'">>,
                    FALSE, FALSE, <<>>, RiskLow)>>
            ELSE <<>>
        spaceHit == Len(p.space) > 0
        spaceF == Itemize("Disk space issues:", p.space)
        spaceX ==
            IF spaceHit
            THEN <<MkFix("clean_temp_files", "Clean Temporary Files",
                    "Remove old temporary files to free disk space",
                    <<"find /tmp -type f -atime +7 -delete", "find /var/tmp -type f -atime +7 -delete">>,
                    TRUE, FALSE, <<>>, RiskLow)>>
                 \o <<MkFix("clean_log_files", "Clean Old Log Files",
                    "Remove or compress old log files to free space",
                    <<"journalctl --vacuum-time=30d", "find /var/log -name '*.log' -type f -mtime +30 -delete">>,
                    TRUE, FALSE, <<>>, RiskLow)>>
                 \o <<MkFix("find_large_files", "Find Large Files",
                    "Locate large files that may be consuming excessive disk space",
                    <<"find / -type f -size +100M 2>/dev/null | head -20", "du -h /var /tmp /home | sort -rh | head -10">>,
                    FALSE, FALSE, <<>>, RiskLow)>>
            ELSE <<>>
        inodeHit == Len(p.inode) > 0
        inodeF == Itemize("Inode usage issues:", p.inode)
        inodeX ==
            IF inodeHit
            THEN <<MkFix("clean_small_files", "Clean Small/Empty Files",
                    "Remove small and empty files that consume inodes",
                    <<"find /tmp -type f -size 0 -delete", "find /var/tmp -type f -size 0 -delete">>,
                    TRUE, FALSE, <<>>, RiskLow)>>
                 \o <<MkFix("find_inode_consumers", "Find Directories with Many Files",
                    "Locate directories consuming large numbers of inodes",
                    <<"for dir in /tmp /var /home; do echo \"$dir:\"; find \"$dir\" -type d -exec sh -c 'echo \"$(find \"$1\" -maxdepth 1 | wc -l) $1\"' _ {} \\; 2>/dev/null | sort -rn | head -5; done">>,
                    FALSE, FALSE, <<>>, RiskLow)>>
            ELSE <<>>
        corruptionHit == Len(p.corruption) > 0
        corruptionF == Itemize("Filesystem corruption detected:", p.corruption)
        corruptionX ==
            IF corruptionHit
            THEN <<MkFix("check_filesystem", "Check Filesystem Integrity",
                    "Run filesystem check on unmounted filesystem (REQUIRES REBOOT)",
                    <<"fsck -f /dev/sda1", "touch /forcefsck">>,
                    TRUE, FALSE, <<>>, RiskHigh)>>
                 \o <<MkFix("backup_lost_found", "Backup Lost+Found Files",
                    "Create backup of files in lost+found directories",
                    <<"tar -czf /root/lost_found_backup_$(date +%Y%m%d).tar.gz /lost+found /home/lost+found /var/lost+found 2>/dev/null || true">>,
                    TRUE, FALSE, <<>>, RiskLow)>>
            ELSE <<>>
        mountHit == Len(p.mount) > 0
        mountF == Itemize("Mount issues detected:", p.mount)
        mountX ==
            IF mountHit
            THEN <<MkFix("reload_systemd_mounts", "Reload Systemd Mount Units",
                    "Reload and restart failed mount units",
                    <<"systemctl daemon-reload", "systemctl restart local-fs.target">>,
                    TRUE, FALSE, <<>>, RiskMedium)>>
                 \o <<MkFix("check_fstab", "Validate fstab Configuration",
                    "Check /etc/fstab for syntax errors and missing devices",
                    <<"mount -a --test", "findmnt --verify">>,
                    FALSE, FALSE, <<>>, RiskLow)>>
            ELSE <<>>
        symlinksHit == Len(p.symlinks) > 0
        symlinksF == Capped("Broken symbolic links found: ", p.symlinks, 5, " more")
        symlinksX ==
            IF symlinksHit
            THEN <<MkFix("remove_broken_symlinks", "Remove Broken Symbolic Links",
                    "Remove broken symbolic links from common directories",
                    <<"find /usr/bin /usr/local/bin /bin /sbin -type l ! -exec test -e {} \\; -delete 2>/dev/null || true">>,
                    TRUE, FALSE, <<>>, RiskMedium)>>
                 \o <<MkFix("list_broken_symlinks", "List All Broken Symbolic Links",
                    "Find and list all broken symbolic links for manual review",
                    <<"find /usr /etc /var -type l ! -exec test -e {} \\; -print 2>/dev/null | head -20">>,
                    FALSE, FALSE, <<>>, RiskLow)>>
            ELSE <<>>
        performanceHit == Len(p.performance) > 0
        performanceF == Itemize("Filesystem performance issues:", p.performance)
        performanceX ==
            IF performanceHit
            THEN <<MkFix("optimize_filesystem", "Optimize Filesystem Performance",
                    "Run filesystem optimization commands",
                    <<"sync", "echo 3 > /proc/sys/vm/drop_caches">>,
                    TRUE, FALSE, <<>>, RiskLow)>>
                 \o <<MkFix("check_io_stats", "Check I/O Statistics",
                    "Display current I/O statistics and performance metrics",
                    <<"iostat -x 1 5", "iotop -o -d 1 -n 5">>,
                    FALSE, FALSE, <<>>, RiskLow)>>
            ELSE <<>>
        always ==
            <<MkFix("filesystem_overview", "Filesystem Overview",
                    "Display comprehensive filesystem information",
                    <<"df -h", "df -i", "mount | grep -E '^/dev'", "findmnt">>,
                    FALSE, FALSE, <<>>, RiskLow)>>
        found == readOnlyF \o spaceF \o inodeF \o corruptionF \o mountF \o symlinksF \o performanceF
    IN  MkDiagnosis("Filesystem Issues",
                    IF Len(found) = 0 THEN <<"No significant filesystem issues detected">> ELSE found,
                    readOnlyX
                    \o spaceX
                    \o inodeX
                    \o corruptionX
                    \o mountX
                    \o symlinksX
                    \o performanceX
                    \o always)

\* what the helpers of DiagnoseLogIssues can return (the journal size in MB
\* and the number of core dumps are 0 when the helper could not run)
LogProbes ==
    [journalSize : {0, 1500}, persistentErrors : Reports("Failed to start unit"),
     logRotation : Reports("Large log file: /var/log/syslog"),
     failedServices : Reports("nginx.service"), coreDumps : {0, 2},
     kernelIssues : Reports("Out of memory: Killed process")]

DiagnoseLogIssues(p) ==
    LET common == GetCommonFixes
        journalHit == p.journalSize > 1000
        journalF == IF journalHit THEN <<"systemd journal is using " \o ToString(p.journalSize) \o ".0 MB of disk space">> ELSE <<>>
        journalX ==
            IF journalHit
            THEN <<MkFix("vacuum_journal_time", "Clean Old Journal Entries (30 days)",
                    "Remove journal entries older than 30 days to free disk space",
                    <<"journalctl --vacuum-time=30d">>,
                    TRUE, FALSE, <<>>, RiskLow)>>
                 \o <<MkFix("vacuum_journal_size", "Limit Journal Size (500MB)",
                    "Limit systemd journal to 500MB total size",
                    <<"journalctl --vacuum-size=500M">>,
                    TRUE, FALSE, <<>>, RiskLow)>>
            ELSE <<>>
        errorsHit == Len(p.persistentErrors) > 0
        errorsF == CappedWith("Found ", " persistent error patterns in logs", p.persistentErrors, 3, " more error patterns")
        errorsX ==
            IF errorsHit
            THEN <<MkFix("analyze_errors", "Analyze Recent Errors",
                    "Display recent error messages for detailed analysis",
                    <<"journalctl -p err --since '24 hours ago' --no-pager">>,
                    FALSE, FALSE, <<>>, RiskLow)>>
            ELSE <<>>
        rotationHit == Len(p.logRotation) > 0
        rotationF == Itemize("Log rotation issues detected:", p.logRotation)
        rotationX ==
            IF rotationHit
            THEN <<MkFix("force_logrotate", "Force Log Rotation",
                    "Force immediate log rotation for all configured logs",
                    <<"logrotate -f /etc/logrotate.conf">>,
                    TRUE, FALSE, <<>>, RiskLow)>>
                 \o <<MkFix("check_logrotate_config", "Check Logrotate Configuration",
                    "Test logrotate configuration for syntax errors",
                    <<"logrotate -d /etc/logrotate.conf">>,
                    FALSE, FALSE, <<>>, RiskLow)>>
            ELSE <<>>
        failedHit == Len(p.failedServices) > 0
        failedF == Itemize("Services with errors detected:", p.failedServices)
        failedX ==
            IF failedHit
            THEN <<MkFix("restart_failed_services", "Restart Failed Services",
                    "Attempt to restart all currently failed services",
                    <<"systemctl --failed --no-legend | awk '{print $1}' | xargs -r systemctl restart">>,
                    TRUE, FALSE, <<>>, RiskMedium)>>
                 \o <<MkFix("show_service_status", "Show Failed Service Details",
                    "Display detailed status of all failed services",
                    <<"systemctl --failed", "systemctl status --failed">>,
                    FALSE, FALSE, <<>>, RiskLow)>>
            ELSE <<>>
        dumpsHit == p.coreDumps > 0
        dumpsF == IF dumpsHit THEN <<"Found " \o ToString(p.coreDumps) \o " core dumps on system">> ELSE <<>>
        dumpsX ==
            IF dumpsHit
            THEN <<MkFix("list_core_dumps", "List Core Dumps",
                    "Show all core dumps with details",
                    <<"coredumpctl list">>,
                    FALSE, FALSE, <<>>, RiskLow)>>
                 \o <<MkFix("clean_core_dumps", "Clean Old Core Dumps",
                    "Remove core dumps older than 3 days",
                    <<"coredumpctl --vacuum-time=3d">>,
                    TRUE, FALSE, <<>>, RiskLow)>>
            ELSE <<>>
        kernelHit == Len(p.kernelIssues) > 0
        kernelF == Itemize("Kernel issues detected:", p.kernelIssues)
        kernelX ==
            IF kernelHit
            THEN <<MkFix("show_kernel_messages", "Show Recent Kernel Messages",
                    "Display recent kernel messages and errors",
                    <<"dmesg | tail -50", "journalctl -k --since '24 hours ago' --no-pager">>,
                    FALSE, FALSE, <<>>, RiskLow)>>
            ELSE <<>>
        always ==
            <<MkFix("show_system_overview", "System Overview",
                    "Show comprehensive system status and recent important events",
                    <<"systemctl status", "journalctl --since '1 hour ago' -p warning --no-pager">>,
                    FALSE, FALSE, <<>>, RiskLow)>>
        found == journalF \o errorsF \o rotationF \o failedF \o dumpsF \o kernelF
    IN  MkDiagnosis("System Log Issues",
                    IF Len(found) = 0 THEN <<"No significant log issues detected">> ELSE found,
                    journalX
                    \o errorsX
                    \o rotationX
                    \o failedX
                    \o dumpsX
                    \o kernelX
                    \o always)

\* what the helpers of DiagnosePackageIssues can return
PackageProbes ==
    [broken : Reports("libfoo1"), dependency : Reports("libbar2: unmet dependency"),
     locked : BOOLEAN, repo : Reports("NO_PUBKEY 0123456789ABCDEF"),
     cacheSize : {0, 1500}, upgradeable : {0, 25}, orphaned : {0, 15},
     config : Reports("libbaz3"), duplicates : Reports("linux-image-5.10")]

DiagnosePackageIssues(p) ==
    LET common == GetCommonFixes
        brokenHit == Len(p.broken) > 0
        brokenF == Capped("Broken packages detected: ", p.broken, 5, " more")
        brokenX ==
            IF brokenHit
            THEN (IF "fix_broken_packages" \in DOMAIN common THEN <<common["fix_broken_packages"]>> ELSE <<>>)
                 \o <<MkFix("dpkg_configure_all", "Configure All Packages",
                    "Configure all unpacked but unconfigured packages",
                    <<"dpkg --configure -a">>,
                    TRUE, FALSE, <<>>, RiskMedium)>>
            ELSE <<>>
        dependencyHit == Len(p.dependency) > 0
        dependencyF == Itemize("Dependency issues found:", p.dependency)
        dependencyX ==
            IF dependencyHit
            THEN <<MkFix("fix_dependencies", "Fix Missing Dependencies",
                    "Install missing dependencies and fix broken dependencies",
                    <<"apt-get -f install">>,
                    TRUE, FALSE, <<>>, RiskMedium)>>
            ELSE <<>>
        lockedHit == p.locked
        lockedF == IF lockedHit THEN <<"APT is currently locked (another package operation in progress)">> ELSE <<>>
        lockedX ==
            IF lockedHit
            THEN <<MkFix("show_apt_processes", "Show Running APT Processes",
                    "Display processes that may be using APT/dpkg",
                    <<"ps aux | grep -E '(apt|dpkg|unattended-upgrade)'">>,
                    FALSE, FALSE, <<>>, RiskLow)>>
                 \o <<MkFix("remove_apt_lock", "Remove APT Lock Files (DANGEROUS)",
                    "Force remove APT lock files - only use if no APT processes are running",
                    <<"rm -f /var/lib/dpkg/lock-frontend", "rm -f /var/lib/dpkg/lock", "rm -f /var/cache/apt/archives/lock">>,
                    TRUE, FALSE, <<>>, RiskHigh)>>
            ELSE <<>>
        repoHit == Len(p.repo) > 0
        repoF == Itemize("Repository issues detected:", p.repo)
        repoX ==
            IF repoHit
            THEN (IF "update_package_cache" \in DOMAIN common THEN <<common["update_package_cache"]>> ELSE <<>>)
                 \o <<MkFix("fix_repository_keys", "Fix Repository Keys",
                    "Refresh and fix APT repository keys",
                    <<"apt-key adv --refresh-keys --keyserver keyserver.ubuntu.com", "apt-get update">>,
                    TRUE, FALSE, <<>>, RiskLow)>>
            ELSE <<>>
        cacheHit == p.cacheSize > 1000
        cacheF == IF cacheHit THEN <<"Large package cache detected: " \o ToString(p.cacheSize) \o ".0 MB">> ELSE <<>>
        cacheX ==
            IF cacheHit
            THEN (IF "clean_package_cache" \in DOMAIN common THEN <<common["clean_package_cache"]>> ELSE <<>>)
            ELSE <<>>
        upgradeHit == p.upgradeable > 20
        upgradeF == IF upgradeHit THEN <<"Many packages available for upgrade: " \o ToString(p.upgradeable)>> ELSE <<>>
        upgradeX ==
            IF upgradeHit
            THEN <<MkFix("upgrade_packages", "Upgrade All Packages",
                    "Upgrade all packages to their latest versions",
                    <<"apt-get update", "apt-get upgrade -y">>,
                    TRUE, FALSE, <<>>, RiskMedium)>>
                 \o <<MkFix("list_upgradeable", "List Upgradeable Packages",
                    "Show which packages can be upgraded",
                    <<"apt list --upgradable">>,
                    FALSE, FALSE, <<>>, RiskLow)>>
            ELSE <<>>
        orphanedHit == p.orphaned > 10
        orphanedF == IF orphanedHit THEN <<"Many orphaned packages detected: " \o ToString(p.orphaned)>> ELSE <<>>
        orphanedX ==
            IF orphanedHit
            THEN (IF "remove_orphaned_packages" \in DOMAIN common THEN <<common["remove_orphaned_packages"]>> ELSE <<>>)
                 \o <<MkFix("list_orphaned", "List Orphaned Packages",
                    "Show packages that can be automatically removed",
                    <<"apt autoremove --dry-run">>,
                    FALSE, FALSE, <<>>, RiskLow)>>
            ELSE <<>>
        configHit == Len(p.config) > 0
        configF == Itemize("Package configuration issues:", p.config)
        configX ==
            IF configHit
            THEN <<MkFix("reconfigure_packages", "Reconfigure Packages",
                    "Reconfigure packages that failed configuration",
                    <<"dpkg-reconfigure -a">>,
                    TRUE, FALSE, <<>>, RiskMedium)>>
            ELSE <<>>
        duplicatesHit == Len(p.duplicates) > 0
        duplicatesF == Itemize("Duplicate packages detected:", p.duplicates)
        duplicatesX ==
            IF duplicatesHit
            THEN <<MkFix("remove_duplicates", "Remove Duplicate Packages",
                    "Remove older versions of duplicate packages",
                    <<"aptitude purge '~o'">>,
                    TRUE, FALSE, <<>>, RiskMedium)>>
            ELSE <<>>
        always ==
            <<MkFix("package_system_check", "Comprehensive Package Check",
                    "Run comprehensive package system diagnostics",
                    <<"apt-get check", "dpkg --audit", "apt list --installed | wc -l">>,
                    FALSE, FALSE, <<>>, RiskLow)>>
        found == brokenF \o dependencyF \o lockedF \o repoF \o cacheF \o upgradeF \o orphanedF \o configF \o duplicatesF
    IN  MkDiagnosis("Package System Issues",
                    IF Len(found) = 0 THEN <<"No significant package system issues detected">> ELSE found,
                    brokenX
                    \o dependencyX
                    \o lockedX
                    \o repoX
                    \o cacheX
                    \o upgradeX
                    \o orphanedX
                    \o configX
                    \o duplicatesX
                    \o always)

\* what the helpers of DiagnoseServiceIssues can return
ServiceProbes ==
    [failedServices : {<<>>, <<"nginx">>, <<"nginx", "cron">>},
     errorServices : Reports("apache2"), criticalServices : Reports("ssh"),
     flappingServices : Reports("docker"), maskedServices : Reports("bluetooth"),
     dependencyIssues : Reports("Found ordering cycle on basic.target")]

\* one command (or pair of commands) per service
RECURSIVE generateServiceLogCommands(_)
generateServiceLogCommands(services) ==
    IF Len(services) = 0 THEN <<>>
    ELSE <<"journalctl -u " \o Head(services) \o " --since '1 hour ago' --no-pager">>
         \o generateServiceLogCommands(Tail(services))

RECURSIVE generateEnableServiceCommands(_)
generateEnableServiceCommands(services) ==
    IF Len(services) = 0 THEN <<>>
    ELSE <<"systemctl enable " \o Head(services), "systemctl start " \o Head(services)>>
         \o generateEnableServiceCommands(Tail(services))

RECURSIVE generateDisableServiceCommands(_)
generateDisableServiceCommands(services) ==
    IF Len(services) = 0 THEN <<>>
    ELSE <<"systemctl stop " \o Head(services), "systemctl disable " \o Head(services)>>
         \o generateDisableServiceCommands(Tail(services))

RECURSIVE generateFlappingAnalysisCommands(_)
generateFlappingAnalysisCommands(services) ==
    IF Len(services) = 0 THEN <<>>
    ELSE <<"systemctl status " \o Head(services),
           "journalctl -u " \o Head(services)
               \o " --since '2 hours ago' | grep -E '(Started|Stopped|Failed)' | tail -10">>
         \o generateFlappingAnalysisCommands(Tail(services))

DiagnoseServiceIssues(p) ==
    LET common == GetCommonFixes
        failedHit == Len(p.failedServices) > 0
        failedF == Itemize("Failed services detected:", p.failedServices)
        failedX ==
            IF failedHit
            THEN <<MkFix("restart_failed_services", "Restart Failed Services",
                    "Attempt to restart all failed services",
                    <<"systemctl restart " \o Join(p.failedServices, " ")>>,
                    TRUE, TRUE, <<"systemctl stop " \o Join(p.failedServices, " ")>>, RiskMedium)>>
                 \o <<MkFix("check_service_logs", "Check Service Logs",
                    "Examine logs for failed services to understand issues",
                    generateServiceLogCommands(p.failedServices),
                    FALSE, FALSE, <<>>, RiskLow)>>
            ELSE <<>>
        errorHit == Len(p.errorServices) > 0
        errorF == Itemize("Services in error state:", p.errorServices)
        errorX ==
            IF errorHit
            THEN <<MkFix("reset_error_services", "Reset Services in Error State",
                    "Reset failed service states and attempt restart",
                    <<"systemctl reset-failed", "systemctl restart " \o Join(p.errorServices, " ")>>,
                    TRUE, FALSE, <<>>, RiskMedium)>>
            ELSE <<>>
        criticalHit == Len(p.criticalServices) > 0
        criticalF == Itemize("Critical services that are disabled:", p.criticalServices)
        criticalX ==
            IF criticalHit
            THEN <<MkFix("enable_critical_services", "Enable Critical Services",
                    "Enable and start essential system services",
                    generateEnableServiceCommands(p.criticalServices),
                    TRUE, TRUE, generateDisableServiceCommands(p.criticalServices), RiskHigh)>>
            ELSE <<>>
        flappingHit == Len(p.flappingServices) > 0
        flappingF == Itemize("Services with high restart rates (potentially flapping):", p.flappingServices)
        flappingX ==
            IF flappingHit
            THEN <<MkFix("analyze_flapping_services", "Analyze Flapping Services",
                    "Examine services that are restarting frequently",
                    generateFlappingAnalysisCommands(p.flappingServices),
                    FALSE, FALSE, <<>>, RiskLow)>>
                 \o <<MkFix("stop_flapping_services", "Stop Flapping Services",
                    "Temporarily stop services that are restarting frequently",
                    <<"systemctl stop " \o Join(p.flappingServices, " ")>>,
                    TRUE, TRUE, <<"systemctl start " \o Join(p.flappingServices, " ")>>, RiskHigh)>>
            ELSE <<>>
        maskedHit == Len(p.maskedServices) > 0
        maskedF == Itemize("Masked services that may need attention:", p.maskedServices)
        maskedX ==
            IF maskedHit
            THEN <<MkFix("unmask_services", "Unmask Services",
                    "Unmask services that may have been accidentally masked",
                    <<"systemctl unmask " \o Join(p.maskedServices, " ")>>,
                    TRUE, TRUE, <<"systemctl mask " \o Join(p.maskedServices, " ")>>, RiskMedium)>>
            ELSE <<>>
        dependencyHit == Len(p.dependencyIssues) > 0
        dependencyF == Itemize("Service dependency issues:", p.dependencyIssues)
        dependencyX ==
            IF dependencyHit
            THEN <<MkFix("reload_systemd_daemon", "Reload Systemd Configuration",
                    "Reload systemd daemon to refresh service dependencies",
                    <<"systemctl daemon-reload", "systemctl restart systemd-logind">>,
                    TRUE, FALSE, <<>>, RiskMedium)>>
            ELSE <<>>
        always ==
            <<MkFix("service_overview", "Service Overview",
                    "Display comprehensive service status information",
                    <<"systemctl list-units --type=service --state=failed", "systemctl list-units --type=service --state=active", "systemctl list-unit-files --type=service | grep disabled", "systemctl status">>,
                    FALSE, FALSE, <<>>, RiskLow),
              MkFix("check_service_conflicts", "Check Service Conflicts",
                    "Identify conflicting services and dependency loops",
                    <<"systemctl list-dependencies --reverse --all", "systemctl list-dependencies --before --all", "systemd-analyze verify">>,
                    FALSE, FALSE, <<>>, RiskLow)>>
        found == failedF \o errorF \o criticalF \o flappingF \o maskedF \o dependencyF
    IN  MkDiagnosis("Service Issues",
                    IF Len(found) = 0 THEN <<"No significant service issues detected">> ELSE found,
                    failedX
                    \o errorX
                    \o criticalX
                    \o flappingX
                    \o maskedX
                    \o dependencyX
                    \o always)

\* what the helpers of DiagnosePermissionIssues can return
PermissionProbes ==
    [user : {<<"Cannot determine current user: user: unknown userid 1000">>,
             <<"Current user: alice (UID: 1000)">>,
             <<"Current user: alice (UID: 1000)", "User is in 'sudo' group">>},
     home : {<<>>,
             <<"Home directory has overly permissive permissions: 0777">>,
             <<"Home directory has overly permissive permissions: 0777",
               ".ssh directory has insecure permissions: 0755">>},
     system : Reports("/etc has unexpected permissions: 0777 (expected 0755)"),
     executable : Reports("File is not executable: /bin/ls"),
     configFile : Reports("/etc/shadow is world-readable/writable: 0644 (expected 0640)"),
     ssh : Reports(".ssh directory has incorrect permissions: 0755 (should be 0700)"),
     sudo : Reports("User is not in sudo/admin group")]

\* os.UserHomeDir of the sampled user
homeDir == "/home/alice"

\* generatePermissionFixes: the fixes one finding calls for, then the next
RECURSIVE generatePermissionFixes(_)
generatePermissionFixes(findings) ==
    IF Len(findings) = 0 THEN <<>>
    ELSE LET finding == Head(findings)
             sshDir == homeDir \o "/.ssh"
         IN  (IF Contains(finding, "Home directory has overly permissive")
              THEN <<MkFix("fix_home_permissions", "Fix Home Directory Permissions",
                           "Set secure permissions on home directory",
                           <<"chmod 750 '" \o homeDir \o "'">>,
                           FALSE, FALSE, <<>>, RiskLow)>>
              ELSE <<>>)
             \o (IF Contains(finding, ".ssh directory has incorrect permissions")
                 THEN <<MkFix("fix_ssh_dir_permissions", "Fix SSH Directory Permissions",
                              "Set correct permissions on .ssh directory",
                              <<"chmod 700 '" \o sshDir \o "'",
                                "chmod 600 '" \o sshDir \o "'/id_*",
                                "chmod 600 '" \o sshDir \o "'/authorized_keys",
                                "chmod 644 '" \o sshDir \o "'/known_hosts">>,
                              FALSE, FALSE, <<>>, RiskLow)>>
                 ELSE <<>>)
             \o generatePermissionFixes(Tail(findings))

DiagnosePermissionIssues(p) ==
    LET findings == p.user \o p.home \o p.system \o p.executable
                    \o p.configFile \o p.ssh \o p.sudo
    IN  MkDiagnosis("Permission Issues",
                    IF Len(findings) = 0 THEN <<"No permission issues detected">> ELSE findings,
                    generatePermissionFixes(findings))

(***************************************************************************)
(* The free-text path: DiagnoseCustomIssue                                 *)
(***************************************************************************)
\* the keys of the keywordCategories map of extractKeywords ...
Categories ==
    {"boot", "network", "performance", "disk", "services",
     "graphics", "audio", "packages", "permissions", "logs", "hardware", "security"}

\* ... and the terms of each
keywordCategories ==
    [c \in Categories |->
        CASE c = "boot" -> {"boot", "startup", "grub", "start", "starting", "boots", "booting"}
          [] c = "network" -> {"network", "internet", "wifi", "ethernet", "connection", "dns", "ip", "ping", "connect"}
          [] c = "performance" -> {"slow", "fast", "performance", "lag", "freeze", "hang", "cpu", "memory", "ram"}
          [] c = "disk" -> {"disk", "storage", "space", "full", "hdd", "ssd", "filesystem", "mount"}
          [] c = "services" -> {"service", "daemon", "systemd", "process", "running", "stopped"}
          [] c = "graphics" -> {"graphics", "display", "screen", "resolution", "x11", "wayland", "nvidia", "amd"}
          [] c = "audio" -> {"audio", "sound", "speaker", "microphone", "alsa", "pulseaudio"}
          [] c = "packages" -> {"package", "apt", "install", "software", "application", "program"}
          [] c = "permissions" -> {"permission", "access", "denied", "sudo", "root", "user", "group"}
          [] c = "logs" -> {"log", "error", "warning", "journal", "syslog", "dmesg"}
          [] c = "hardware" -> {"hardware", "device", "driver", "usb", "bluetooth", "keyboard", "mouse"}
          [] c = "security" -> {"security", "firewall", "ssh", "login", "password", "authentication"}]

\* the categories the switch of getKeywordBasedFixes has a case for
KeywordFixCategories ==
    {"boot", "network", "performance", "disk", "services",
     "graphics", "audio", "packages", "permissions", "hardware"}

\* the Fix each case appends
KeywordFix ==
    [c \in KeywordFixCategories |->
        CASE c = "boot" ->
              MkFix("check_boot_issues", "Check Boot Issues",
                    "Examine boot process and grub configuration",
                    <<"systemctl status", "journalctl -b -p err", "lsblk", "mount | grep boot">>,
                    FALSE, FALSE, <<>>, RiskLow)
          [] c = "network" ->
              MkFix("diagnose_network", "Diagnose Network Issues",
                    "Check network configuration and connectivity",
                    <<"ip addr show", "ip route show", "ping -c 3 8.8.8.8", "systemctl status networking", "cat /etc/resolv.conf">>,
                    FALSE, FALSE, <<>>, RiskLow)
          [] c = "performance" ->
              MkFix("check_performance", "Check System Performance",
                    "Analyze CPU, memory, and system load",
                    <<"top -b -n 1 | head -20", "free -h", "uptime", "iostat -x 1 3", "ps aux --sort=-%cpu | head -10">>,
                    FALSE, FALSE, <<>>, RiskLow)
          [] c = "disk" ->
              MkFix("check_disk_space", "Check Disk Usage",
                    "Analyze disk space and filesystem health",
                    <<"df -h", "df -i", "lsblk", "mount", "du -h /var /tmp /home | sort -rh | head -10">>,
                    FALSE, FALSE, <<>>, RiskLow)
          [] c = "services" ->
              MkFix("check_services", "Check System Services",
                    "Examine systemd services and processes",
                    <<"systemctl --failed", "systemctl list-units --state=failed", "ps aux | grep -v grep", "systemctl status">>,
                    FALSE, FALSE, <<>>, RiskLow)
          [] c = "graphics" ->
              MkFix("check_graphics", "Check Graphics Configuration",
                    "Examine display and graphics driver status",
                    <<"lspci | grep -i vga", "lsmod | grep -E '(nvidia|amd|intel)'", "xrandr", "echo $DISPLAY", "ps aux | grep -E '(X|wayland)'">>,
                    FALSE, FALSE, <<>>, RiskLow)
          [] c = "audio" ->
              MkFix("check_audio", "Check Audio Configuration",
                    "Examine audio devices and sound system",
                    <<"aplay -l", "amixer", "pulseaudio --check", "systemctl --user status pulseaudio", "lsmod | grep snd">>,
                    FALSE, FALSE, <<>>, RiskLow)
          [] c = "packages" ->
              MkFix("check_packages", "Check Package System",
                    "Examine APT package manager and installations",
                    <<"apt list --upgradable", "apt-get check", "dpkg --audit", "apt-cache policy">>,
                    FALSE, FALSE, <<>>, RiskLow)
          [] c = "permissions" ->
              MkFix("check_permissions", "Check File Permissions",
                    "Examine user permissions and access rights",
                    <<"id", "groups", "ls -la /home/$USER", "sudo -l", "getfacl /home/$USER 2>/dev/null || echo 'No ACL support'">>,
                    FALSE, FALSE, <<>>, RiskLow)
          [] c = "hardware" ->
              MkFix("check_hardware", "Check Hardware Status",
                    "Examine hardware devices and drivers",
                    <<"lspci", "lsusb", "lsmod", "dmesg | grep -i error | tail -10", "lshw -short">>,
                    FALSE, FALSE, <<>>, RiskLow)]

getGeneralTroubleshootingFixes ==
    <<MkFix("system_overview", "System Overview",
            "Get a comprehensive overview of system status",
            <<"uname -a", "lsb_release -a", "uptime", "whoami", "pwd">>,
            FALSE, FALSE, <<>>, RiskLow),
      MkFix("check_recent_changes", "Check Recent Changes",
            "Look for recent system changes that might have caused issues",
            <<"last | head -10", "grep $(date '+%b %d') /var/log/syslog | tail -20", "journalctl --since '1 hour ago' -p warning", "apt list --installed | grep $(date '+%Y-%m-%d')">>,
            FALSE, FALSE, <<>>, RiskLow),
      MkFix("basic_connectivity_test", "Basic Connectivity Test",
            "Test basic network and system connectivity",
            <<"ping -c 3 127.0.0.1", "ping -c 3 8.8.8.8", "curl -I http://example.com", "nslookup google.com">>,
            FALSE, FALSE, <<>>, RiskLow),
      MkFix("restart_common_services", "Restart Common Services",
            "Restart commonly problematic services",
            <<"systemctl restart networking", "systemctl restart systemd-resolved", "systemctl restart dbus">>,
            TRUE, FALSE, <<>>, RiskMedium)>>

getInformationGatheringFixes ==
    <<MkFix("gather_system_info", "Gather Detailed System Information",
            "Collect comprehensive system information for troubleshooting",
            <<"cat /proc/version", "cat /proc/cpuinfo | grep 'model name' | head -1", "cat /proc/meminfo | grep -E '^(MemTotal|MemFree|MemAvailable)'", "lscpu", "env | sort">>,
            FALSE, FALSE, <<>>, RiskLow),
      MkFix("check_system_logs", "Check System Logs",
            "Examine system logs for error messages and warnings",
            <<"journalctl -p err --since '24 hours ago' --no-pager", "dmesg | grep -i error | tail -10", "tail -50 /var/log/syslog | grep -i error", "systemctl status --failed">>,
            FALSE, FALSE, <<>>, RiskLow),
      MkFix("create_diagnostic_report", "Create Diagnostic Report",
            "Generate a comprehensive diagnostic report",
            <<"echo '=== SYSTEM INFO ===' > /tmp/diagnostic_report.txt", "uname -a >> /tmp/diagnostic_report.txt", "echo '=== DISK USAGE ===' >> /tmp/diagnostic_report.txt", "df -h >> /tmp/diagnostic_report.txt", "echo '=== MEMORY USAGE ===' >> /tmp/diagnostic_report.txt", "free -h >> /tmp/diagnostic_report.txt", "echo '=== RECENT ERRORS ===' >> /tmp/diagnostic_report.txt", "journalctl -p err --since '24 hours ago' --no-pager | tail -20 >> /tmp/diagnostic_report.txt", "echo 'Report saved to /tmp/diagnostic_report.txt'">>,
            FALSE, FALSE, <<>>, RiskLow)>>

\* the categories with a term that some word of the description contains
Detected(description) ==
    LET words == Fields(description)
    IN  {c \in Categories :
            \E k \in 1..Len(words), term \in keywordCategories[c] :
                Contains(words[k], term)}

\* the sequences holding every element of S exactly once
Orderings(S) ==
    {f \in [1..Cardinality(S) -> S] : \A a, b \in 1..Cardinality(S) : a # b => f[a] # f[b]}

\* extractKeywords appends each detected category once, in the order in which
\* the walk over keywordCategories meets it.  keywordCategories is a Go map,
\* whose iteration order differs from run to run, so every order can come out.
extractKeywords(description) == Orderings(Detected(description))

\* getKeywordBasedFixes: one Fix per keyword the switch has a case for
RECURSIVE getKeywordBasedFixes(_)
getKeywordBasedFixes(keywords) ==
    IF Len(keywords) = 0 THEN <<>>
    ELSE (IF Head(keywords) \in KeywordFixCategories
          THEN <<KeywordFix[Head(keywords)]>> ELSE <<>>)
         \o getKeywordBasedFixes(Tail(keywords))

\* DiagnoseCustomIssue, given the keywords extractKeywords returned to it
DiagnoseCustomIssue(userDescription, keywords) ==
    LET description == TrimSpace(ToLower(userDescription))
    IN  IF description = ""
        THEN MkDiagnosis("Custom Issue Diagnosis",
                         <<"No issue description provided">>,
                         getGeneralTroubleshootingFixes)
        ELSE MkDiagnosis("Custom Issue Diagnosis",
                         <<"Analyzing issue: " \o userDescription,
                           "Detected keywords: " \o Join(keywords, ", "),
                           IF Len(keywords) = 0
                           THEN "No specific keywords detected - providing general troubleshooting steps"
                           ELSE "Providing targeted troubleshooting based on detected keywords">>,
                         getKeywordBasedFixes(keywords)
                         \o getGeneralTroubleshootingFixes
                         \o getInformationGatheringFixes)

\* descriptions given to DiagnoseCustomIssue: by the interface (its fixed
\* text), on the command line, and by the package's callers
DescriptionPool ==
    {"", "   ", "General system troubleshooting requested",
     "my computer is slow and the network drops",
     "network slow", "slow network", "SLOW slow lag",
     "cannot read the error log", "ssh login refused", "wifi disk sound",
     "it is broken"}

(***************************************************************************)
(* The interface: rootCmd.Run, SimpleUI.Run, runDiagnosis,                 *)
(* showDiagnosisResults and applyFix                                       *)
(***************************************************************************)
MaxApplied == 1     \* fixes the operator has applied after which no further diagnosis is started

\* the text runDiagnosis hands to DiagnoseCustomIssue
UIDescription == "General system troubleshooting requested"

\* the entries of the diagnosis menu that reach runDiagnosis
IssueTypes ==
    {"BOOT ISSUES", "PERFORMANCE ISSUES", "NETWORK ISSUES", "DISK ISSUES",
     "FILESYSTEM ISSUES", "LOG ISSUES", "SERVICE ISSUES", "DISPLAY ISSUES",
     "PACKAGE ISSUES", "PERMISSION ISSUES", "CUSTOM ISSUE"}

\* the menu entries behind which a handler probes the host
StructuredIssueTypes ==
    {"BOOT ISSUES", "PERFORMANCE ISSUES", "NETWORK ISSUES", "DISK ISSUES",
     "FILESYSTEM ISSUES", "LOG ISSUES", "SERVICE ISSUES", "PACKAGE ISSUES",
     "PERMISSION ISSUES"}

\* what the host can answer to the diagnosis of one menu entry
ProbesOf(issueType) ==
    CASE issueType = "BOOT ISSUES" -> BootProbes
      [] issueType = "PERFORMANCE ISSUES" -> PerformanceProbes
      [] issueType = "NETWORK ISSUES" -> NetworkProbes
      [] issueType = "DISK ISSUES" -> DiskProbes
      [] issueType = "FILESYSTEM ISSUES" -> FilesystemProbes
      [] issueType = "LOG ISSUES" -> LogProbes
      [] issueType = "SERVICE ISSUES" -> ServiceProbes
      [] issueType = "PACKAGE ISSUES" -> PackageProbes
      [] issueType = "PERMISSION ISSUES" -> PermissionProbes
      [] issueType = "CUSTOM ISSUE" ->
            {[description |-> UIDescription, keywords |-> ks] :
                ks \in extractKeywords(TrimSpace(ToLower(UIDescription)))}
      [] OTHER -> {[none |-> TRUE]}

\* the switch of runDiagnosis
Diagnose(issueType, p) ==
    CASE issueType = "BOOT ISSUES" -> DiagnoseBootIssues(p)
      [] issueType = "PERFORMANCE ISSUES" -> DiagnosePerformanceIssues(p)
      [] issueType = "NETWORK ISSUES" -> DiagnoseNetworkIssues(p)
      [] issueType = "DISK ISSUES" -> DiagnoseDisk(p)
      [] issueType = "FILESYSTEM ISSUES" -> DiagnoseFilesystemIssues(p)
      [] issueType = "LOG ISSUES" -> DiagnoseLogIssues(p)
      [] issueType = "PACKAGE ISSUES" -> DiagnosePackageIssues(p)
      [] issueType = "SERVICE ISSUES" -> DiagnoseServiceIssues(p)
      [] issueType = "PERMISSION ISSUES" -> DiagnosePermissionIssues(p)
      [] issueType = "CUSTOM ISSUE" -> DiagnoseCustomIssue(p.description, p.keywords)
      [] OTHER -> MkDiagnosis(issueType,
                              <<"Diagnosis not yet implemented for this issue type">>,
                              <<>>)

\* askYesNo on the line the scanner read: getInput trims it
askYesNo(line) ==
    LET response == TrimSpace(line)
    IN  ToLower(response) = "y" \/ ToLower(response) = "yes"

SuccessMessage == "Fix applied successfully!"

InitCatalog ==
    /\ ExecutorOff
    /\ config \in [IsRoot : BOOLEAN, NonInteractive : {FALSE}]
    /\ ChecksOff
    /\ ui = "start"
    /\ request = NoRequest
    /\ diagnosis = NoDiagnosis
    /\ screen = <<>>

\* rootCmd.Run without --issue: runTUI up to the main menu
runTUI ==
    /\ ui = "start"
    /\ ui' = "menu"
    /\ UNCHANGED <<request, diagnosis, screen, execVars, checkVars>>

\* rootCmd.Run with --issue: runCustomDiagnosis prints the diagnosis and ends
runCustomDiagnosis(customIssue) ==
    /\ ui = "start"
    /\ customIssue # ""
    /\ \E keywords \in extractKeywords(TrimSpace(ToLower(customIssue))) :
        /\ request' = [issueType |-> "--issue",
                       probes |-> [description |-> customIssue, keywords |-> keywords]]
        /\ diagnosis' = DiagnoseCustomIssue(customIssue, keywords)
    /\ ui' = "printed"
    /\ UNCHANGED <<screen, execVars, checkVars>>

\* runInteractiveDiagnosis and runDiagnosis: the operator picks a menu entry,
\* the handler probes the host and returns its Diagnosis
runDiagnosis(issueType) ==
    /\ ui = "menu"
    /\ Len(screen) < MaxApplied
    /\ \E p \in ProbesOf(issueType) :
        /\ request' = [issueType |-> issueType, probes |-> p]
        /\ diagnosis' = Diagnose(issueType, p)
    /\ ui' = "results"
    /\ UNCHANGED <<screen, execVars, checkVars>>

\* showDiagnosisResults up to its prompt, or to waitForKey when there is no Fix
showDiagnosisResults ==
    /\ ui = "results"
    /\ ui' = IF Len(diagnosis.Fixes) > 0 THEN "ask" ELSE "wait"
    /\ UNCHANGED <<request, diagnosis, screen, execVars, checkVars>>

\* the operator answers "Apply the first available fix?"; on yes, applyFix
applyFix(line) ==
    /\ ui = "ask"
    /\ IF askYesNo(line)
       THEN /\ screen' = Append(screen, SuccessMessage)
            /\ log' = Append(log, LogEntry("INFO",
                                           "Applied fix: " \o diagnosis.Fixes[1].Description, 0))
       ELSE UNCHANGED <<screen, log>>
    /\ ui' = "wait"
    /\ UNCHANGED <<request, diagnosis, checkVars>>
    /\ UNCHANGED <<fix, config, pc, i, j, calls, prompts, stdin, ret, earlier>>

\* waitForKey returns and showDiagnosisResults with it: back to the main menu
waitForKey ==
    /\ ui = "wait"
    /\ ui' = "menu"
    /\ request' = NoRequest
    /\ diagnosis' = NoDiagnosis
    /\ UNCHANGED <<screen, execVars, checkVars>>

\* the operator leaves the main menu
showExitMessage ==
    /\ ui = "menu"
    /\ ui' = "exit"
    /\ UNCHANGED <<request, diagnosis, screen, execVars, checkVars>>

NextCatalog ==
    \/ runTUI
    \/ \E customIssue \in DescriptionPool : runCustomDiagnosis(customIssue)
    \/ \E issueType \in IssueTypes : runDiagnosis(issueType)
    \/ showDiagnosisResults
    \/ \E line \in AnswerPool : applyFix(line)
    \/ waitForKey
    \/ showExitMessage

SpecCatalog == InitCatalog /\ [][NextCatalog]_vars

(***************************************************************************)
(* The system checks of package checks: Severity, DiskSpaceCheck.Run,      *)
(* MemoryCheck.Run and the Results aggregate                               *)
(***************************************************************************)
MaxResults == 2     \* longest sequence of AddResult calls

SeverityInfo == 0
SeverityWarning == 1
SeverityError == 2
SeverityCritical == 3

MkCheckResult(name, severity, message, details) ==
    [Name |-> name, Severity |-> severity, Message |-> message, Details |-> details]

\* what the host can report to DiskSpaceCheck.Run: whether statfs failed,
\* and the block and inode usage of / in percent
DiskSpaceSamples ==
    {[check |-> "Disk Space", statfsErr |-> TRUE, usage |-> 0, inode |-> 0]}
    \cup {[check |-> "Disk Space", statfsErr |-> FALSE, usage |-> u, inode |-> n] :
            u \in {50, 90, 96}, n \in {10, 95}}

\* DiskSpaceCheck.Run
DiskSpaceCheckRun(s) ==
    IF s.statfsErr
    THEN MkCheckResult("Disk Space", SeverityError, "Failed to check disk space", <<>>)
    ELSE LET usage == IF s.usage > 95
                      THEN <<SeverityCritical, "Disk usage critical: ">>
                      ELSE IF s.usage > 85
                      THEN <<SeverityWarning, "Disk usage high: ">>
                      ELSE <<SeverityInfo, "Disk usage OK: ">>
             message == usage[2] \o ToString(s.usage) \o "%"
             details == <<"Used: " \o ToString(s.usage) \o "%",
                          "Inode usage: " \o ToString(s.inode) \o "%">>
         IN  IF s.inode > 90
             THEN MkCheckResult("Disk Space", SeverityWarning,
                                message \o " (High inode usage: " \o ToString(s.inode) \o "%)",
                                details)
             ELSE MkCheckResult("Disk Space", usage[1], message, details)

\* what the host can report to MemoryCheck.Run: whether the memory and the
\* swap statistics failed, memory used in percent, swap size in MB and swap
\* used in percent
MemorySamples ==
    {[check |-> "Memory Usage", vmErr |-> TRUE, used |-> 0,
      swapErr |-> FALSE, swapTotal |-> 0, swapUsed |-> 0]}
    \cup {[check |-> "Memory Usage", vmErr |-> FALSE, used |-> u,
           swapErr |-> e, swapTotal |-> t, swapUsed |-> w] :
            u \in {50, 85, 95}, e \in BOOLEAN, t \in {0, 2048}, w \in {10, 60}}

\* MemoryCheck.Run
MemoryCheckRun(s) ==
    IF s.vmErr
    THEN MkCheckResult("Memory Usage", SeverityError, "Failed to check memory usage", <<>>)
    ELSE LET usage == IF s.used > 90
                      THEN <<SeverityError, "Memory usage critical: ">>
                      ELSE IF s.used > 80
                      THEN <<SeverityWarning, "Memory usage high: ">>
                      ELSE <<SeverityInfo, "Memory usage OK: ">>
             message == usage[2] \o Percent(s.used)
             details == <<"Used: " \o Percent(s.used)>>
             swapDetails == <<"Swap Total: " \o ToString(s.swapTotal) \o " MB",
                              "Swap Used: " \o Percent(s.swapUsed)>>
         IN  IF s.swapErr
             THEN MkCheckResult("Memory Usage", usage[1], message, details)
             ELSE IF s.swapTotal = 0
             THEN MkCheckResult("Memory Usage", usage[1], message,
                                details \o swapDetails
                                \o <<"Warning: No swap space configured">>)
             ELSE IF s.swapUsed > 50
             THEN MkCheckResult("Memory Usage", SeverityWarning,
                                message \o " (High swap usage indicates memory pressure)",
                                details \o swapDetails)
             ELSE MkCheckResult("Memory Usage", usage[1], message, details \o swapDetails)

\* Results.AddResult dropping a result equal to one it already holds
AddResult_Deduplicating(r, res) ==
    LET checked == [r EXCEPT !.checks = Append(r.checks, res)]
    IN  IF \E k \in 1..Len(r.checks) : r.checks[k] = res
        THEN r
        ELSE IF res.Severity \in {SeverityError, SeverityCritical}
        THEN [checked EXCEPT !.errors = Append(r.errors, res.Message)]
        ELSE IF res.Severity = SeverityWarning
        THEN [checked EXCEPT !.warnings = Append(r.warnings, res.Message)]
        ELSE IF res.Severity = SeverityInfo
        THEN [checked EXCEPT !.info = Append(r.info, res.Message)]
        ELSE checked

\* Results.AddResult filing Critical findings nowhere
AddResult_CriticalUnfiled(r, res) ==
    LET checked == [r EXCEPT !.checks = Append(r.checks, res)]
    IN  IF res.Severity = SeverityError
        THEN [checked EXCEPT !.errors = Append(r.errors, res.Message)]
        ELSE IF res.Severity = SeverityWarning
        THEN [checked EXCEPT !.warnings = Append(r.warnings, res.Message)]
        ELSE IF res.Severity = SeverityInfo
        THEN [checked EXCEPT !.info = Append(r.info, res.Message)]
        ELSE checked

\* Results.AddResult
AddResult(r, res) ==
    LET checked == [r EXCEPT !.checks = Append(r.checks, res)]
    IN  IF res.Severity \in {SeverityError, SeverityCritical}
        THEN [checked EXCEPT !.errors = Append(r.errors, res.Message)]
        ELSE IF res.Severity = SeverityWarning
        THEN [checked EXCEPT !.warnings = Append(r.warnings, res.Message)]
        ELSE IF res.Severity = SeverityInfo
        THEN [checked EXCEPT !.info = Append(r.info, res.Message)]
        ELSE checked

InitChecks ==
    /\ ExecutorOff
    /\ config \in [IsRoot : BOOLEAN, NonInteractive : {FALSE}]
    /\ UIOff
    /\ results = NewResults
    /\ result = NoResult
    /\ sample = NoSample
    /\ summary = NoSummary

\* runSystemCheck runs the disk space check on what the host reports
RunDiskSpaceCheck(s) ==
    /\ result = NoResult
    /\ Len(results.checks) < MaxResults
    /\ sample' = s
    /\ result' = DiskSpaceCheckRun(s)
    /\ UNCHANGED <<results, summary, execVars, uiVars>>

\* runSystemCheck runs the memory check on what the host reports
RunMemoryCheck(s) ==
    /\ result = NoResult
    /\ Len(results.checks) < MaxResults
    /\ sample' = s
    /\ result' = MemoryCheckRun(s)
    /\ UNCHANGED <<results, summary, execVars, uiVars>>

\* runSystemCheck hands the result to results.AddResult
AddCheckResult ==
    /\ result # NoResult
    /\ results' = AddResult(results, result)
    /\ result' = NoResult
    /\ sample' = NoSample
    /\ UNCHANGED <<summary, execVars, uiVars>>

NextChecks ==
    \/ \E s \in DiskSpaceSamples : RunDiskSpaceCheck(s)
    \/ \E s \in MemorySamples : RunMemoryCheck(s)
    \/ AddCheckResult

SpecChecks == InitChecks /\ [][NextChecks]_vars

(***************************************************************************)
(* The comprehensive report: summary.Generator.Generate on the Results of  *)
(* the scan.  The resource readings are the host's, so they are inputs.    *)
(***************************************************************************)
MaxDisks == 2       \* most partitions in a ResourceStatus

\* what gatherResourceStatus can read: CPU, memory and swap usage and the
\* usage of each partition, in percent (0 where a reading failed)
ResourceStatuses ==
    [CPUUsage : {0, 95}, MemoryPercent : {50, 95}, SwapPercent : {10, 60},
     DiskUsage : SeqsOf({50, 85, 95}, 0, MaxDisks)]

\* calculateHealthScore's deduction for the partitions from the k-th on
RECURSIVE DiskDeductions(_, _)
DiskDeductions(disks, k) ==
    IF k > Len(disks) THEN 0
    ELSE (IF disks[k] > 90 THEN 10 ELSE IF disks[k] > 80 THEN 5 ELSE 0)
         + DiskDeductions(disks, k + 1)

\* calculateHealthScore's deductions for high resource usage
ResourceDeductions(status) ==
    (IF status.CPUUsage > 80 THEN 10 ELSE 0)
    + (IF status.MemoryPercent > 90 THEN 10 ELSE 0)
    + (IF status.SwapPercent > 50 THEN 5 ELSE 0)
    + DiskDeductions(status.DiskUsage, 1)

\* calculateHealthScore: the score it stores in the summary s
calculateHealthScore(s) ==
    LET score == 100 - Len(s.CriticalIssues) * 20 - Len(s.Warnings) * 5
                 - ResourceDeductions(s.ResourceStatus)
    IN  IF score < 0 THEN 0 ELSE IF score > 100 THEN 100 ELSE score

\* Generate on the Results of the finished scan; status is what
\* gatherResourceStatus read
Generate(status) ==
    /\ result = NoResult
    /\ summary = NoSummary
    /\ LET created == [CheckResults |-> results, ResourceStatus |-> status,
                       HealthScore |-> 0, CriticalIssues |-> <<>>, Warnings |-> <<>>]
           scored == [created EXCEPT !.HealthScore = calculateHealthScore(created)]
       IN  summary' = [scored EXCEPT !.CriticalIssues = results.errors,
                                     !.Warnings = results.warnings]
    /\ UNCHANGED <<results, result, sample, execVars, uiVars>>

\* runSystemCheck: the scan, then the report
NextSummary ==
    \/ summary = NoSummary /\ NextChecks
    \/ \E status \in ResourceStatuses : Generate(status)

SpecSummary == InitChecks /\ [][NextSummary]_vars



(***************************************************************************)
(* Observations on a run, used by the properties below                     *)
(***************************************************************************)
IsForward(c) == c.dir = "forward"
IsReverse(c) == c.dir = "reverse"
ForwardCalls == SelectSeq(calls, IsForward)
ReverseCalls == SelectSeq(calls, IsReverse)

Logged(msg) == \E k \in 1..Len(log) : log[k].msg = msg

\* some forward command of this call failed
ForwardFailed == \E k \in 1..Len(calls) : calls[k].dir = "forward" /\ calls[k].err # ""

\* the operator was asked about a rollback and what they answered
RollbackAsked == \E k \in 1..Len(prompts) : prompts[k].kind = "reverse"
RollbackAnswer == stdin[Len(stdin)]

\* the lines of AnswerPool that are a yes: y or yes in any case, blanks
\* around it ignored
YesLines == {"y\n", " YES \n"}

\* the terminal state of section 4.4 the finished call is in
Outcome ==
    IF pc # "done" THEN "Running"
    ELSE IF ret.kind = "nil" /\ Logged("Fix execution cancelled by user") THEN "Cancelled"
    ELSE IF ret.kind = "nil" THEN "Completed"
    ELSE IF Logged("Fix reversal completed") THEN "Reversed"
    ELSE "Failed"

\* the descending sequence k, k-1, ..., 0
Descending(k) == [m \in 1..(k + 1) |-> k + 1 - m]

Indices(cs) == [m \in 1..Len(cs) |-> cs[m].idx]

(***************************************************************************)
(* C1: a Fix that fails validation, or a valid Fix that requires root run  *)
(* without root, makes ExecuteFix return an error with no side effect: no  *)
(* prompt is ever shown, no line is read, no command is invoked and        *)
(* nothing is logged, in interactive and non-interactive mode alike.       *)
(***************************************************************************)
C1_Refused ==
    \/ validateFix(fix) # NoError
    \/ (fix.RequiresRoot /\ ~config.IsRoot)

C1_ErrorBeforeSideEffect ==
    C1_Refused =>
        /\ prompts = <<>> /\ stdin = <<>> /\ calls = <<>> /\ log = <<>>
        /\ pc \in {"call", "done"}
        /\ pc = "done" => ret.kind = "error"

C1_Witness ==
    /\ pc = "done"
    /\ validateFix(fix) = NoError
    /\ fix.RequiresRoot /\ ~config.IsRoot /\ ~config.NonInteractive
    /\ ret.kind = "error" /\ ret.msg = "fix requires root privileges"
    /\ calls = <<>>

(***************************************************************************)
(* C2: in interactive mode an answer to the confirmation prompt that is    *)
(* not a yes (the empty input included) ends the call Cancelled, with no   *)
(* command of the Fix executed.                                            *)
(***************************************************************************)
C2_NonAffirmativeCancels ==
    (~config.NonInteractive /\ Len(stdin) >= 1 /\ stdin[1] \notin YesLines) =>
        /\ pc = "done"
        /\ Outcome = "Cancelled"
        /\ calls = <<>>

C2_Witness ==
    /\ ~config.NonInteractive
    /\ stdin = <<"">>
    /\ Outcome = "Cancelled"
    /\ calls = <<>>

(***************************************************************************)
(* C3: no command of a Fix is invoked unless the operator was shown the    *)
(* confirmation prompt for it and answered yes beforehand.                 *)
(***************************************************************************)
C3_NoCommandWithoutConfirmation ==
    (\E k \in 1..Len(calls) : calls[k].spawned) =>
        /\ Len(prompts) >= 1 /\ prompts[1].kind = "confirm"
        /\ Len(stdin) >= 1 /\ stdin[1] \in YesLines

(***************************************************************************)
(* C4: the forward commands are invoked in list order, each at most once,  *)
(* and none is invoked after one that failed (non-zero exit or not         *)
(* started).                                                               *)
(***************************************************************************)
C4_InOrderHaltOnFailure ==
    LET fwd == ForwardCalls
    IN  IF fix = NilFix THEN fwd = <<>>
        ELSE /\ Len(fwd) <= Len(fix.Commands)
             /\ \A k \in 1..Len(fwd) :
                  /\ fwd[k].idx = k - 1
                  /\ fwd[k].cmd = fix.Commands[k]
                  /\ (k < Len(fwd) => fwd[k].err = "" /\ fwd[k].spawned)

C4_Witness ==
    /\ pc = "done"
    /\ fix # NilFix
    /\ Len(fix.Commands) = 3
    /\ Len(ForwardCalls) = 2
    /\ ForwardCalls[2].err # ""

(***************************************************************************)
(* C5: when forward command i failed and the rollback ran, the reverse     *)
(* commands of indices i-1 down to 0 were invoked in exactly that order,   *)
(* each once, and none of index i or above.                                *)
(***************************************************************************)
C5_ReverseAllDescending ==
    (pc = "done" /\ Logged("Fix reversal completed")) =>
        Indices(ReverseCalls) = Descending(i - 1)

(***************************************************************************)
(* C6: reverse commands are invoked only if the Fix is reversible, the     *)
(* failed command is not the first and the operator, asked, agreed; after  *)
(* a failure where one of the three does not hold no reverse command is    *)
(* invoked and the call ends Failed.                                       *)
(***************************************************************************)
C6_RollbackAgreed ==
    /\ fix # NilFix
    /\ fix.Reversible
    /\ i > 0
    /\ RollbackAsked /\ RollbackAnswer \in YesLines

C6_ReverseOnlyWhenAllThree ==
    /\ ReverseCalls # <<>> => (ForwardFailed /\ C6_RollbackAgreed)
    /\ (pc = "done" /\ ForwardFailed /\ ~C6_RollbackAgreed) =>
           (ReverseCalls = <<>> /\ Outcome = "Failed")

C6_Witness ==
    /\ pc = "done"
    /\ ForwardFailed
    /\ fix # NilFix
    /\ fix.Reversible /\ i > 0
    /\ RollbackAsked /\ RollbackAnswer = "n\n"
    /\ ReverseCalls = <<>>
    /\ Outcome = "Failed"

(***************************************************************************)
(* C7: a reverse command that fails is logged and does not stop the        *)
(* rollback: the reverse steps go down one index at a time, and a call     *)
(* that started a rollback ends only after the step of index 0, with the   *)
(* completion of the reversal logged.                                      *)
(***************************************************************************)
C7_RollbackRunsToEnd ==
    LET rev == ReverseCalls
    IN  /\ \A k \in 1..Len(rev) :
             /\ (k > 1 => rev[k].idx = rev[k - 1].idx - 1)
             /\ (rev[k].err # "" /\ (k < Len(rev) \/ pc = "done")) =>
                    \E m \in 1..Len(log) :
                        log[m] = LogEntry("ERROR", "Failed to reverse step", rev[k].idx + 1)
        /\ (pc = "done" /\ rev # <<>>) =>
             /\ rev[Len(rev)].idx = 0
             /\ log[Len(log)] = LogEntry("INFO", "Fix reversal completed", 0)

C7_Witness ==
    /\ pc = "done"
    /\ Len(ReverseCalls) >= 2
    /\ ReverseCalls[1].err # ""
    /\ ReverseCalls[Len(ReverseCalls)].idx = 0

(***************************************************************************)
(* C8: for every reversible Fix of the catalogue, a rollback the operator  *)
(* accepted after a failure at index i > 0 invokes a reverse command for   *)
(* each of the steps 0..i-1.                                               *)
(***************************************************************************)
C8_CatalogRollbackCoversEveryStep ==
    (fix \in CatalogFixes /\ pc = "done" /\ ForwardFailed /\ C6_RollbackAgreed) =>
        \A k \in 0..(i - 1) : \E m \in 1..Len(calls) :
            calls[m].dir = "reverse" /\ calls[m].idx = k

(***************************************************************************)
(* C9: a Fix that is present, has a title and at least one command is      *)
(* rejected by the validator exactly when one of its commands contains,    *)
(* compared without regard to case, one of the fragments rm -rf /, dd if=, *)
(* mkfs, fdisk, parted, > /dev/.                                           *)
(***************************************************************************)
C9_Denylist == {"rm -rf /", "dd if=", "mkfs", "fdisk", "parted", "> /dev/"}

\* frag occurs in s at some offset, letters compared without regard to case
C9_ContainsFold(s, frag) ==
    \E k \in 0..(Len(s) - Len(frag)) :
        \A m \in 1..Len(frag) : LowerOf(Char(s, k + m)) = LowerOf(Char(frag, m))

C9_Denylisted(f) ==
    \E k \in 1..Len(f.Commands) : \E frag \in C9_Denylist :
        C9_ContainsFold(f.Commands[k], frag)

C9_Rejected == ret.kind = "error" /\ ret.msg = "fix validation failed"

C9_RejectedIffDenylisted ==
    (pc = "done" /\ fix # NilFix /\ fix.Title # "" /\ Len(fix.Commands) > 0) =>
        (C9_Rejected <=> C9_Denylisted(fix))

C9_Witness ==
    /\ pc = "done"
    /\ fix # NilFix /\ fix.Title # ""
    /\ fix.Commands = <<"ls -la /tmp", "sudo Mkfs.ext4 /dev/sdb1">>
    /\ C9_Rejected

(***************************************************************************)
(* C10: the validator's checks are applied in the order absent descriptor, *)
(* empty title, zero commands, denylisted command, and a Fix that violates *)
(* several of them is rejected with the reason of the earliest one.        *)
(***************************************************************************)
C10_Violated(f) ==
    IF f = NilFix THEN {1}
    ELSE {n \in {2} : f.Title = ""}
         \cup {n \in {3} : Len(f.Commands) = 0}
         \cup {n \in {4} : C9_Denylisted(f)}

C10_Reason == <<"fix is nil", "fix title is required", "fix has no commands",
                "dangerous command detected: ">>

C10_HasPrefix(s, prefix) ==
    Len(s) >= Len(prefix) /\ SubSeq(s, 1, Len(prefix)) = prefix

C10_FirstFailureWins ==
    pc = "done" =>
        LET v == C10_Violated(fix)
        IN  IF v = {} THEN ~C9_Rejected
            ELSE LET first == CHOOSE n \in v : \A m \in v : n <= m
                     want == C10_Reason[first]
                 IN  /\ C9_Rejected
                     /\ C10_HasPrefix(ret.cause, want)
                     /\ first < 4 => ret.cause = want

C10_Witness ==
    /\ pc = "done"
    /\ fix # NilFix
    /\ fix.Title = ""
    /\ C9_Denylisted(fix)
    /\ ret.cause = "fix title is required"

(***************************************************************************)
(* C11. Every Fix the program offers passes validation: every Fix of       *)
(* GetCommonFixes and every Fix a catalogue handler places in a Diagnosis  *)
(* has a title, at least one command and no denylisted fragment.           *)
(***************************************************************************)
C11_EveryOfferedFixValid ==
    /\ \A id \in CommonFixIds : validateFix(GetCommonFixes[id]) = NoError
    /\ \A k \in 1..Len(diagnosis.Fixes) : validateFix(diagnosis.Fixes[k]) = NoError

(***************************************************************************)
(* C12. A Fix the operator accepts in the interface goes through the       *)
(* validator, the confirmation and the executor, and the interface reports *)
(* success only if the Fix's commands were invoked and all exited zero.    *)
(***************************************************************************)
C12_SuccessOnlyAfterExecution ==
    (\E k \in 1..Len(screen) : screen[k] = SuccessMessage)
        => /\ ret = RetNil
           /\ \E k \in 1..Len(prompts) : prompts[k].kind = "confirm"
           /\ Len(calls) > 0
           /\ \A k \in 1..Len(calls) : calls[k].spawned /\ calls[k].err = ""

(***************************************************************************)
(* C13. The severity a Check reports is the maximum of the severities of   *)
(* the conditions it detected in that run: a condition of lower severity   *)
(* evaluated later never lowers it.                                        *)
(***************************************************************************)
C13_Max(S) == CHOOSE m \in S : \A x \in S : x <= m

\* the severities of the conditions the sampled host state shows
C13_Conditions ==
    IF sample.check = "Disk Space"
    THEN IF sample.statfsErr THEN {SeverityError}
         ELSE {IF sample.usage > 95 THEN SeverityCritical
               ELSE IF sample.usage > 85 THEN SeverityWarning
               ELSE SeverityInfo}
              \cup (IF sample.inode > 90 THEN {SeverityWarning} ELSE {})
    ELSE IF sample.vmErr THEN {SeverityError}
         ELSE {IF sample.used > 90 THEN SeverityError
               ELSE IF sample.used > 80 THEN SeverityWarning
               ELSE SeverityInfo}
              \cup (IF ~sample.swapErr /\ sample.swapTotal # 0 /\ sample.swapUsed > 50
                    THEN {SeverityWarning} ELSE {})

\* C13: the reported severity is the maximum over the detected conditions
C13_SeverityIsMaximum ==
    result # NoResult => result.Severity = C13_Max(C13_Conditions)

(***************************************************************************)
(* C14. After any sequence of AddResult calls the errors view holds the    *)
(* messages of the Error and Critical findings, the warnings view those of *)
(* the Warning findings and the info view those of the Info findings, each *)
(* in insertion order, so every finding is in exactly one view.            *)
(***************************************************************************)
C14_Messages(sevs) ==
    LET Test(c) == c.Severity \in sevs
        picked == SelectSeq(results.checks, Test)
    IN  [k \in 1..Len(picked) |-> picked[k].Message]

\* C14: the three views partition the added findings by severity, in order
C14_ViewsPartitionFindings ==
    /\ results.errors = C14_Messages({SeverityError, SeverityCritical})
    /\ results.warnings = C14_Messages({SeverityWarning})
    /\ results.info = C14_Messages({SeverityInfo})
    /\ Len(results.errors) + Len(results.warnings) + Len(results.info)
         = Len(results.checks)

C14_Witness ==
    /\ Len(results.checks) >= 2
    /\ \E k \in 1..Len(results.checks) : results.checks[k].Severity = SeverityCritical
    /\ \E k \in 1..Len(results.checks) : results.checks[k].Severity = SeverityWarning

(***************************************************************************)
(* Observations of the free-text path                                      *)
(***************************************************************************)
\* the Diagnosis on show came from DiagnoseCustomIssue
FreeTextRequest == request.issueType \in {"CUSTOM ISSUE", "--issue"}

\* the description as DiagnoseCustomIssue analyses it
CleanDescription == TrimSpace(ToLower(request.probes.description))

(***************************************************************************)
(* C15. For every free-text input, the empty and the keyword-free ones     *)
(* included, the Diagnosis ends with the two universal blocks, general     *)
(* troubleshooting then information gathering, after all category fixes;   *)
(* for the empty string the Fix list is exactly these two blocks.          *)
(***************************************************************************)
C15_UniversalBlocks == getGeneralTroubleshootingFixes \o getInformationGatheringFixes

\* C15: the Fix list of a free-text Diagnosis ends with both universal blocks
C15_UniversalBlocksLast ==
    FreeTextRequest =>
        LET n == Len(diagnosis.Fixes)
            u == Len(C15_UniversalBlocks)
        IN  /\ n >= u
            /\ SubSeq(diagnosis.Fixes, n - u + 1, n) = C15_UniversalBlocks
            /\ request.probes.description = "" => diagnosis.Fixes = C15_UniversalBlocks

(***************************************************************************)
(* C16. On the free-text path the detected categories and their Fix blocks *)
(* appear in the fixed enumeration order boot, network, performance, disk, *)
(* services, graphics, audio, packages, permissions, logs, hardware,       *)
(* security, whatever the order of the words: one description, one order.  *)
(***************************************************************************)
C16_EnumerationOrder ==
    <<"boot", "network", "performance", "disk", "services", "graphics", "audio",
      "packages", "permissions", "logs", "hardware", "security">>

C16_Ordered(S) ==
    LET Test(c) == c \in S
    IN  SelectSeq(C16_EnumerationOrder, Test)

\* C16: keywords and category fixes come in the enumeration order
C16_FixedCategoryOrder ==
    (FreeTextRequest /\ CleanDescription # "") =>
        LET ordered == C16_Ordered(Detected(CleanDescription))
            blocks == getKeywordBasedFixes(ordered)
        IN  /\ request.probes.keywords = ordered
            /\ Len(diagnosis.Fixes) >= Len(blocks)
            /\ SubSeq(diagnosis.Fixes, 1, Len(blocks)) = blocks

(***************************************************************************)
(* C17. On the free-text path every detected category contributes exactly  *)
(* one Fix block, however many of its trigger words occur.                 *)
(***************************************************************************)
C17_CategoryFixes ==
    LET n == Len(diagnosis.Fixes) - Len(getGeneralTroubleshootingFixes)
                                  - Len(getInformationGatheringFixes)
    IN  IF n > 0 THEN SubSeq(diagnosis.Fixes, 1, n) ELSE <<>>

\* C17: as many category fixes as detected categories, one for each
C17_OneBlockPerCategory ==
    (FreeTextRequest /\ CleanDescription # "") =>
        LET detected == Detected(CleanDescription)
        IN  /\ Len(C17_CategoryFixes) = Cardinality(detected)
            /\ \A c \in detected \cap KeywordFixCategories :
                 Cardinality({k \in 1..Len(C17_CategoryFixes) :
                                C17_CategoryFixes[k] = KeywordFix[c]}) = 1

(***************************************************************************)
(* Observations of the structured categories                               *)
(***************************************************************************)
\* the Diagnosis on show came from a handler that probes the host
StructuredRequest == request.issueType \in StructuredIssueTypes

HasFinding(text) == \E k \in 1..Len(diagnosis.Findings) : diagnosis.Findings[k] = text

HasFindingPrefix(prefix) ==
    \E k \in 1..Len(diagnosis.Findings) :
        /\ Len(diagnosis.Findings[k]) >= Len(prefix)
        /\ SubSeq(diagnosis.Findings[k], 1, Len(prefix)) = prefix

HasFix(id) == \E k \in 1..Len(diagnosis.Fixes) : diagnosis.Fixes[k].ID = id

HasFixPrefix(prefix) ==
    \E k \in 1..Len(diagnosis.Fixes) :
        /\ Len(diagnosis.Fixes[k].ID) >= Len(prefix)
        /\ SubSeq(diagnosis.Fixes[k].ID, 1, Len(prefix)) = prefix

(***************************************************************************)
(* C18. For every structured category and every combination of probe       *)
(* outcomes the Diagnosis has a non-empty Fix list whose last element is   *)
(* the category's overview Fix, which only gathers information: it needs   *)
(* no root, carries low risk and changes nothing that could be undone.     *)
(***************************************************************************)
C18_InformationOnly(f) ==
    /\ ~f.RequiresRoot
    /\ f.RiskLevel = RiskLow
    /\ ~f.Reversible
    /\ f.ReverseCommands = <<>>

\* C18: a structured Diagnosis ends with an information-gathering Fix
C18_EndsWithOverview ==
    StructuredRequest =>
        /\ Len(diagnosis.Fixes) > 0
        /\ C18_InformationOnly(diagnosis.Fixes[Len(diagnosis.Fixes)])

(***************************************************************************)
(* C19. In every Diagnosis the catalogue produces, for each structured     *)
(* category under any probe outcomes and for any free-text input, the fix  *)
(* ids are pairwise distinct.                                              *)
(***************************************************************************)
C19_FixIdsDistinct ==
    \A a, b \in 1..Len(diagnosis.Fixes) :
        a # b => diagnosis.Fixes[a].ID # diagnosis.Fixes[b].ID

C19_Witness ==
    /\ request.issueType = "NETWORK ISSUES"
    /\ Len(request.probes.interfaces.down) = 2
    /\ HasFix("bring_up_eth0")
    /\ HasFix("bring_up_wlan0")
    /\ ui = "results"

(***************************************************************************)
(* C20. When a probe of a handler cannot run, the handler treats it as no  *)
(* finding: it adds neither a Finding nor a Fix for that probe, passes no   *)
(* error on, and still returns a Diagnosis.                                *)
(***************************************************************************)
C20_Boot ==
    LET p == request.probes
    IN  /\ p.state = "spawn" =>
             /\ ~HasFindingPrefix("System ")
             /\ ~HasFix("show_failed_services")
        /\ p.journal = -1 =>
             /\ ~HasFinding("Boot errors detected in system journal")
             /\ ~HasFix("view_boot_errors")
        /\ p.mount = "spawn" =>
             /\ ~HasFinding("Read-only filesystem detected")
             /\ ~HasFix("remount_rw")

C20_Network ==
    LET p == request.probes
    IN  /\ p.networking = "spawn" =>
             /\ ~HasFindingPrefix("Networking service ")
             /\ ~HasFix("restart_networking")
        /\ p.interfaces.err =>
             /\ ~HasFindingPrefix("Interfaces down")
             /\ ~HasFinding("All network interfaces are up")
             /\ ~HasFixPrefix("bring_up_")
        /\ p.route = "spawn" =>
             /\ ~HasFindingPrefix("No default route")
             /\ ~HasFinding("Default route configured")
             /\ ~HasFix("add_default_route")

C20_Performance ==
    LET p == request.probes
    IN  /\ p.cpu = -1 => ~HasFindingPrefix("High CPU") /\ ~HasFindingPrefix("CPU usage")
        /\ p.mem = -1 =>
             /\ ~HasFindingPrefix("High memory") /\ ~HasFindingPrefix("Memory usage")
             /\ ~HasFix("clear_caches")
        /\ p.load = "err" =>
             /\ ~HasFindingPrefix("High system load") /\ ~HasFindingPrefix("System load")
             /\ ~HasFix("view_processes")
        /\ p.swap = -1 => ~HasFindingPrefix("High swap") /\ ~HasFix("clear_swap")

\* C20: a probe that could not run leaves no Finding and no Fix behind
C20_ProbeErrorIsNoFinding ==
    /\ request.issueType = "BOOT ISSUES" => C20_Boot
    /\ request.issueType = "NETWORK ISSUES" => C20_Network
    /\ request.issueType = "PERFORMANCE ISSUES" => C20_Performance
    /\ StructuredRequest => Len(diagnosis.Findings) > 0

(***************************************************************************)
(* C21: every Fix the validator accepts, and so every Fix that reaches     *)
(* confirmation and execution, has a command list holding at least one     *)
(* non-empty command string.                                               *)
(***************************************************************************)
C21_AcceptedHasCommand ==
    (fix # NilFix /\ validateFix(fix) = NoError /\ pc # "call") =>
        \E k \in 1..Len(fix.Commands) : fix.Commands[k] # ""

(***************************************************************************)
(* C22: provided every prompt is answered and every subprocess terminates, *)
(* each ExecuteFix call ends in exactly one of the terminal states         *)
(* Completed, Failed (un-reversed), Reversed and Cancelled and returns to  *)
(* its caller, on the failure paths (validation, permission, command       *)
(* failure, failure of a rollback step) as on the others.                  *)
(***************************************************************************)
\* every command ran and none failed; nil is returned
C22_Completed ==
    /\ ret = RetNil
    /\ fix # NilFix
    /\ Len(ForwardCalls) = Len(fix.Commands)
    /\ ~ForwardFailed
    /\ ReverseCalls = <<>>

\* the operator declined at the confirmation prompt; nil is returned
C22_Cancelled ==
    /\ ret = RetNil
    /\ calls = <<>>
    /\ Len(stdin) = 1
    /\ ~IsAffirmative(stdin[1])

\* a command failed and the rollback the operator agreed to ran to its end
C22_Reversed ==
    /\ ret.kind = "error"
    /\ ForwardFailed
    /\ RollbackAsked /\ IsAffirmative(RollbackAnswer)
    /\ log # <<>> /\ log[Len(log)] = LogEntry("INFO", "Fix reversal completed", 0)

\* an error is returned and nothing was rolled back
C22_Failed ==
    /\ ret.kind = "error"
    /\ ReverseCalls = <<>>
    /\ ~(RollbackAsked /\ IsAffirmative(RollbackAnswer))
    /\ \/ calls = <<>> /\ prompts = <<>> /\ log = <<>>
       \/ ForwardFailed

C22_TerminalStates ==
    {s \in {"Completed", "Failed", "Reversed", "Cancelled"} :
        \/ s = "Completed" /\ C22_Completed
        \/ s = "Failed" /\ C22_Failed
        \/ s = "Reversed" /\ C22_Reversed
        \/ s = "Cancelled" /\ C22_Cancelled}

C22_EndsInOneTerminalState ==
    <>[](pc = "done" /\ Cardinality(C22_TerminalStates) = 1)

C22_Witness ==
    /\ pc = "done"
    /\ C22_TerminalStates = {"Reversed"}
    /\ \E k \in 1..Len(calls) : calls[k].dir = "reverse" /\ calls[k].err # ""

C25_AppendOnly ==
    [][IF result # NoResult
       THEN results'.checks = Append(results.checks, result)
       ELSE results'.checks = results.checks]_vars

C25_Witness ==
    /\ Len(results.checks) = 2
    /\ results.checks[1] = results.checks[2]
    /\ result = NoResult

(***************************************************************************)
(* C26: RiskLevel is ordered Low < Medium < High < Critical, and the label *)
(* and the advisory colour of a level are exact and total over the four    *)
(* levels: Low is Low/green, Medium is Medium/yellow, High is High/red,    *)
(* Critical is Critical/magenta, and no level is left unmapped.            *)
(***************************************************************************)
C26_Table ==
    <<[level |-> RiskLow, label |-> "Low", colour |-> "green"],
      [level |-> RiskMedium, label |-> "Medium", colour |-> "yellow"],
      [level |-> RiskHigh, label |-> "High", colour |-> "red"],
      [level |-> RiskCritical, label |-> "Critical", colour |-> "magenta"]>>

C26_OrderedAndMapped ==
    /\ \A k \in 1..3 : C26_Table[k].level < C26_Table[k + 1].level
    /\ fix # NilFix =>
         \E k \in 1..4 :
             /\ C26_Table[k].level = fix.RiskLevel
             /\ RiskString(fix.RiskLevel) = C26_Table[k].label
             /\ RiskColor(fix.RiskLevel) = C26_Table[k].colour
             /\ \A m \in 1..Len(prompts) : prompts[m].risk = C26_Table[k].label

C26_Witness ==
    /\ pc = "confirm"
    /\ fix.RiskLevel = RiskCritical
    /\ prompts[1].risk = "Critical"
    /\ RiskColor(fix.RiskLevel) = "magenta"

(***************************************************************************)
(* C27: the value ExecuteFix returns tells the Cancelled outcome (the      *)
(* operator declined, no command was run) from the Completed outcome       *)
(* (every command ran and exited zero).  A Completed call returns nil, so  *)
(* a Cancelled call must return something else.                            *)
(***************************************************************************)
\* the operator declined at the confirmation prompt and no command was run
C27_Declined ==
    /\ pc = "done"
    /\ Len(prompts) = 1 /\ prompts[1].kind = "confirm"
    /\ Len(stdin) = 1 /\ ~IsAffirmative(stdin[1])
    /\ calls = <<>>

\* every command of the Fix ran and exited zero
C27_AllRan ==
    /\ pc = "done"
    /\ fix # NilFix
    /\ calls # <<>>
    /\ Len(calls) = Len(fix.Commands)
    /\ \A k \in 1..Len(calls) : calls[k].dir = "forward" /\ calls[k].err = ""

C27_ReturnTellsCancelledFromCompleted ==
    /\ C27_AllRan => ret = RetNil
    /\ C27_Declined => ret # RetNil

(***************************************************************************)
(* C28: in non-interactive mode ExecuteFix never waits for the operator:   *)
(* on every path, a command failure at an index above 0 of a reversible    *)
(* Fix included, no prompt is awaiting an answer and no line is read from  *)
(* the input stream.                                                       *)
(***************************************************************************)
C28_NonInteractiveNeverReads ==
    config.NonInteractive =>
        /\ pc \notin {"confirm", "offer"}
        /\ stdin = <<>>

(***************************************************************************)
(* C29: whenever a forward command fails at index i, ExecuteFix returns an *)
(* error that names the failed command by its 1-based position i + 1,      *)
(* whether the rollback was not offered, was declined, or ran with every   *)
(* reverse step succeeding; a rollback never turns the result into         *)
(* success.                                                                *)
(***************************************************************************)
C29_FailureIsReported ==
    (pc = "done" /\ ForwardFailed) =>
        LET failed == ForwardCalls[Len(ForwardCalls)]
        IN  /\ failed.err # ""
            /\ ret = RetError("fix execution failed at command", failed.idx + 1, failed.err)

C29_Witness ==
    /\ pc = "done"
    /\ ForwardFailed
    /\ ReverseCalls # <<>>
    /\ \A k \in 1..Len(ReverseCalls) : ReverseCalls[k].err = ""
    /\ ret.kind = "error" /\ ret.at = 3

(***************************************************************************)
(* C30: the health score in the summary Generate returns reflects the      *)
(* check results passed to it: starting from 100 it is lowered by 20 for   *)
(* every error or critical result and by 5 for every warning result in     *)
(* those results, and by the resource-usage deductions, and is then        *)
(* clamped to 0..100.                                                      *)
(***************************************************************************)
C30_Count(checks, sevs) ==
    Cardinality({k \in 1..Len(checks) : checks[k].Severity \in sevs})

C30_Clamp(n) == IF n < 0 THEN 0 ELSE IF n > 100 THEN 100 ELSE n

C30_HealthScoreReflectsResults ==
    summary # NoSummary =>
        summary.HealthScore =
            C30_Clamp(100
                      - 20 * C30_Count(summary.CheckResults.checks,
                                       {SeverityError, SeverityCritical})
                      - 5 * C30_Count(summary.CheckResults.checks, {SeverityWarning})
                      - ResourceDeductions(summary.ResourceStatus))

(***************************************************************************)
(* C23: RiskLevel never blocks execution.  Two Fixes that differ in        *)
(* riskLevel only, run with the same privileges, mode and operator         *)
(* answers, reach the same outcome and invoke the same commands in the     *)
(* same order; the level shows in the confirmation prompt only, where the  *)
(* extra warning banner is printed exactly when it is High or Critical.    *)
(***************************************************************************)
\* a prompt without what it prints of the RiskLevel
C23_WithoutRisk(prompt) == [prompt EXCEPT !.risk = "", !.warning = FALSE]

C23_SamePrompts ==
    /\ Len(prompts) = Len(earlier.prompts)
    /\ \A k \in 1..Len(prompts) :
         k <= Len(earlier.prompts) =>
             C23_WithoutRisk(prompts[k]) = C23_WithoutRisk(earlier.prompts[k])

C23_RiskNeverBlocks ==
    /\ (earlier # NoEarlier /\ pc = "done") =>
          /\ ret = earlier.ret
          /\ calls = earlier.calls
          /\ stdin = earlier.stdin
          /\ log = earlier.log
          /\ C23_SamePrompts
    /\ \A k \in 1..Len(prompts) :
          prompts[k].warning =
              (prompts[k].kind = "confirm" /\ fix.RiskLevel \in {RiskHigh, RiskCritical})

C23_Witness ==
    /\ earlier # NoEarlier
    /\ pc = "done"
    /\ earlier.fix.RiskLevel = RiskLow
    /\ fix.RiskLevel = RiskCritical
    /\ Len(calls) >= 2
    /\ earlier.prompts # <<>>
    /\ prompts # <<>>
    /\ ~earlier.prompts[1].warning
    /\ prompts[1].warning

====
